---- MODULE Spec2Model ----
(***************************************************************************)
(* Model of the sync core of hubble: the SyncId codec, the TrieNode of the *)
(* Merkle radix trie, the MerkleTrie wrapper and the SyncEngine's sync     *)
(* round.  Bytes are integers 0..255, byte strings are sequences of bytes, *)
(* and BLAKE3-160 is an injective symbolic function on byte strings.       *)
(***************************************************************************)
EXTENDS Integers, Sequences, FiniteSets, TLC

VARIABLES
  root,       \* the local MerkleTrie (its root node)
  S,          \* the abstract set of stored SyncIds
  deleted,    \* whether delete was ever called
  last,       \* the latest call on the trie
  peer,       \* the MerkleTrie of the peer hub
  isSyncing,  \* SyncEngine._isSyncing
  calls,      \* the performSync calls: where each stands and what it holds
  mergeCall,  \* a mergeMessages call: where it stands and what it holds
  listeners,  \* the store's event emitter: the stream listeners of each event
  streams     \* the Subscribe streams of the rpc server

vars == <<root, S, deleted, last, peer, isSyncing, calls, mergeCall, listeners, streams>>

rpcVars == <<listeners, streams>>

trieVars == <<root, S, deleted, last>>

syncVars == <<peer, isSyncing, calls, mergeCall>>

(***************************************************************************)
(* Constants of the program and bounds of the model.                       *)
(***************************************************************************)
\* syncId.ts: const TIMESTAMP_LENGTH = 10
TIMESTAMP_LENGTH == 10

\* Number of bytes after the timestamp prefix in a model SyncId (26 in the
\* program: store prefix, fid, set postfix, hash).
SuffixLen == 2

KeyLen == TIMESTAMP_LENGTH + SuffixLen

(***************************************************************************)
(* SyncId codec.                                                           *)
(***************************************************************************)
RECURSIVE DecDigits(_)
\* Number.prototype.toString() of a non-negative integer, as ASCII codes.
DecDigits(n) ==
  IF n < 10 THEN <<48 + n>> ELSE Append(DecDigits(n \div 10), 48 + (n % 10))

RECURSIVE PadStart(_, _, _)
\* String.prototype.padStart(len, fill)
PadStart(s, len, fill) ==
  IF Len(s) >= len THEN s ELSE PadStart(<<fill>> \o s, len, fill)

\* Math.floor(timestamp).toString(), without the padding
timestampToPaddedTimestampPrefixUnpadded(timestamp) == DecDigits(timestamp)

\* Math.floor(timestamp).toString().padStart(TIMESTAMP_LENGTH, '0')
timestampToPaddedTimestampPrefix(timestamp) ==
  PadStart(DecDigits(timestamp), TIMESTAMP_LENGTH, 48)

\* The bytes after the timestamp prefix: first byte a, last byte b, zeros
\* between them.
Suffix(a, b) ==
  [i \in 1..SuffixLen |-> IF i = 1 THEN a ELSE IF i = SuffixLen THEN b ELSE 0]

\* SyncId.syncId(): the timestamp prefix followed by the store key bytes.
syncId(timestamp, a, b) ==
  timestampToPaddedTimestampPrefix(timestamp) \o Suffix(a, b)

(***************************************************************************)
(* Hashes.  A hash is the empty tuple (the '' of a node never hashed) or   *)
(* the symbolic digest of a byte string.                                   *)
(***************************************************************************)
NoHash == <<>>

\* BLAKE3-160 of the empty input, as hex.
EMPTY_HASH == <<"E">>

\* blake3Truncate160(key): digest of a key, or of nothing when undefined.
HashOfKey(k) == IF k = <<>> THEN EMPTY_HASH ELSE <<"K", k>>

\* blake3.create().update(h1)...update(hn).digest(): a '' hash adds no bytes.
HashOfHashes(hs) ==
  LET real == SelectSeq(hs, LAMBDA h : h # NoHash)
  IN  IF real = <<>> THEN EMPTY_HASH ELSE <<"N", real>>

(***************************************************************************)
(* TrieNode.                                                               *)
(***************************************************************************)
NoKey == <<>>

\* A node made with the hash of the empty string for its hash
NewNodeHashed == [hash |-> EMPTY_HASH, items |-> 0, key |-> NoKey, children |-> <<>>]

\* new TrieNode()
NewNode == [hash |-> NoHash, items |-> 0, key |-> NoKey, children |-> <<>>]

isLeaf(node) == node.children = <<>>

\* get value(): the key of a leaf, undefined for a node with children
value(node) == IF isLeaf(node) THEN node.key ELSE NoKey

\* this._children.has(char)
HasChild(node, char) == \E i \in 1..Len(node.children) : node.children[i].c = char

ChildIndex(node, char) ==
  CHOOSE i \in 1..Len(node.children) : node.children[i].c = char

\* this._children.get(char)
GetChild(node, char) == node.children[ChildIndex(node, char)].n

\* The child put in the place of the first entry of the map, whatever char is
SetChildFirst(node, char, child) == [node EXCEPT !.children[1].n = child]

SetChild(node, char, child) ==
  [node EXCEPT !.children[ChildIndex(node, char)].n = child]

\* this._children.delete(char)
RemoveChild(node, char) ==
  [node EXCEPT !.children = SelectSeq(@, LAMBDA e : e.c # char)]

\* a < b for the strings Array.prototype.sort() compares: an entry
\* [char, node] is compared as "<char>,[object Object]", and ',' sorts
\* before every digit.
StrLess(a, b) ==
  LET da == DecDigits(a)
      db == DecDigits(b)
      n  == IF Len(da) < Len(db) THEN Len(da) ELSE Len(db)
      diff == {i \in 1..n : da[i] # db[i]}
  IN  IF diff = {} THEN Len(da) < Len(db)
      ELSE LET i == CHOOSE j \in diff : \A k \in diff : j <= k
           IN  da[i] < db[i]

RECURSIVE SortEntries(_)
\* [...entries].sort(): the entries in the order of StrLess
SortEntries(es) ==
  IF es = <<>> THEN <<>>
  ELSE LET m == CHOOSE i \in 1..Len(es) :
                  \A j \in 1..Len(es) : j = i \/ StrLess(es[i].c, es[j].c)
           rest == [k \in 1..(Len(es) - 1) |-> IF k < m THEN es[k] ELSE es[k + 1]]
       IN  <<es[m]>> \o SortEntries(rest)

\* _addChild(char): set a new node, then re-sort the map
addChild(node, char) ==
  [node EXCEPT !.children = SortEntries(Append(@, [c |-> char, n |-> NewNode]))]

ChildHashes(node) == [i \in 1..Len(node.children) |-> node.children[i].n.hash]

\* _updateHash without its else branch: a node with children keeps the hash
\* it had
updateHashLeafOnly(node) ==
  IF isLeaf(node) THEN [node EXCEPT !.hash = HashOfKey(value(node))] ELSE node

\* _updateHash without its first branch: a leaf keeps the hash it had
updateHashInnerOnly(node) ==
  IF isLeaf(node) THEN node ELSE [node EXCEPT !.hash = HashOfHashes(ChildHashes(node))]

\* _updateHash()
updateHash(node) ==
  [node EXCEPT !.hash = IF isLeaf(node) THEN HashOfKey(value(node))
                        ELSE HashOfHashes(ChildHashes(node))]

\* _setKeyValue(key)
setKeyValue(node, key) == updateHash([node EXCEPT !.key = key])

RECURSIVE insert(_, _, _)
RECURSIVE splitLeafNode(_, _)

\* _splitLeafNode(current_index): [n |-> the node after, r |-> "ok" or "throw"]
splitLeafNode(node, current_index) ==
  LET newChildChar == node.key[current_index + 1]
      n1  == addChild(node, newChildChar)
      sub == insert(GetChild(n1, newChildChar), node.key, current_index + 1)
      n2  == SetChild(n1, newChildChar, sub.n)
  IN  IF sub.r = "throw" THEN [n |-> n2, r |-> "throw"]
      ELSE [n |-> setKeyValue(n2, NoKey), r |-> "ok"]

\* insert(key, current_index): [n |-> the node after, r |-> "true", "false"
\* or "throw" ('Key length exceeded')]
insert(node, key, current_index) ==
  IF current_index >= Len(key) THEN [n |-> node, r |-> "throw"]
  ELSE
    LET char == key[current_index + 1] IN
    IF current_index >= TIMESTAMP_LENGTH /\ isLeaf(node) /\ node.key = NoKey
    THEN [n |-> [setKeyValue(node, key) EXCEPT !.items = @ + 1], r |-> "true"]
    ELSE IF current_index >= TIMESTAMP_LENGTH /\ isLeaf(node) /\ node.key = key
    THEN [n |-> node, r |-> "false"]
    ELSE
      LET sp == IF current_index >= TIMESTAMP_LENGTH /\ isLeaf(node)
                THEN splitLeafNode(node, current_index)
                ELSE [n |-> node, r |-> "ok"]
      IN  IF sp.r = "throw" THEN [n |-> sp.n, r |-> "throw"]
          ELSE
            LET n1  == IF HasChild(sp.n, char) THEN sp.n ELSE addChild(sp.n, char)
                sub == insert(GetChild(n1, char), key, current_index + 1)
                n2  == SetChild(n1, char, sub.n)
            IN  IF sub.r = "true"
                THEN [n |-> updateHash([n2 EXCEPT !.items = @ + 1]), r |-> "true"]
                ELSE [n |-> n2, r |-> sub.r]

RECURSIVE delete(_, _, _)
\* delete(key, current_index): [n |-> the node after, r |-> "true", "false"
\* or "throw" ('Key length exceeded2')]
delete(node, key, current_index) ==
  IF isLeaf(node)
  THEN IF node.key = key
       THEN [n |-> setKeyValue([node EXCEPT !.items = @ - 1], NoKey), r |-> "true"]
       ELSE [n |-> node, r |-> "false"]
  ELSE IF current_index >= Len(key) THEN [n |-> node, r |-> "throw"]
  ELSE
    LET char == key[current_index + 1] IN
    IF ~HasChild(node, char) THEN [n |-> node, r |-> "false"]
    ELSE
      LET sub == delete(GetChild(node, char), key, current_index + 1)
          n1  == SetChild(node, char, sub.n)
      IN  IF sub.r # "true" THEN [n |-> n1, r |-> sub.r]
          ELSE
            LET n2 == [n1 EXCEPT !.items = @ - 1]
                \* delete the child if it is empty
                n3 == IF sub.n.items = 0 THEN RemoveChild(n2, char) ELSE n2
                \* compact the node if it has only one child
                n4 == IF n3.items = 1 /\ Len(n3.children) = 1
                         /\ current_index >= TIMESTAMP_LENGTH
                         /\ n3.children[1].n.key # NoKey
                      THEN RemoveChild(setKeyValue(n3, n3.children[1].n.key),
                                       n3.children[1].c)
                      ELSE n3
            IN  [n |-> updateHash(n4), r |-> "true"]

RECURSIVE exists(_, _, _)
\* exists(key, current_index): "true", "false" or "throw" ('Key length exceeded3')
exists(node, key, current_index) ==
  IF isLeaf(node) /\ node.key = key THEN "true"
  ELSE IF current_index >= Len(key) THEN "throw"
  ELSE LET char == key[current_index + 1] IN
       IF ~HasChild(node, char) THEN "false"
       ELSE exists(GetChild(node, char), key, current_index + 1)

RECURSIVE SumItems(_)
SumItems(es) == IF es = <<>> THEN 0 ELSE es[1].n.items + SumItems(Tail(es))

\* _excludedHash(char): hash and item count of the children other than char
excludedHash(node, char) ==
  LET others == SelectSeq(node.children, LAMBDA e : e.c # char)
  IN  [hash  |-> HashOfHashes([i \in 1..Len(others) |-> others[i].n.hash]),
       items |-> SumItems(others)]

\* prefix.at(i): the byte at 0-based index i, or -1 (undefined) past the end
At(prefix, i) == IF i + 1 <= Len(prefix) THEN prefix[i + 1] ELSE -1

SubSeqTo(s, n) == [i \in 1..(IF n < Len(s) THEN n ELSE Len(s)) |-> s[i]]

RECURSIVE getSnapshotInnerOnly(_, _, _)
\* getSnapshot with the excluded hashes of the inner snapshot taken instead
\* of prepended to: the levels above the deepest one are lost
getSnapshotInnerOnly(node, prefix, current_index) ==
  LET char == At(prefix, current_index)
      ex   == excludedHash(node, char)
  IN  IF current_index = Len(prefix) - 1
      THEN [prefix |-> prefix, excludedHashes |-> <<ex.hash>>, numMessages |-> ex.items]
      ELSE IF HasChild(node, char)
      THEN LET inner == getSnapshotInnerOnly(GetChild(node, char), prefix, current_index + 1)
           IN  [prefix |-> inner.prefix,
                excludedHashes |-> inner.excludedHashes,
                numMessages |-> ex.items + inner.numMessages]
      ELSE [prefix |-> SubSeqTo(prefix, current_index + 1),
            excludedHashes |-> <<ex.hash>>,
            numMessages |-> ex.items]

RECURSIVE getSnapshotCutBefore(_, _, _)
\* getSnapshot with the prefix cut before the byte that has no child
getSnapshotCutBefore(node, prefix, current_index) ==
  LET char == At(prefix, current_index)
      ex   == excludedHash(node, char)
  IN  IF current_index = Len(prefix) - 1
      THEN [prefix |-> prefix, excludedHashes |-> <<ex.hash>>, numMessages |-> ex.items]
      ELSE IF HasChild(node, char)
      THEN LET inner == getSnapshotCutBefore(GetChild(node, char), prefix, current_index + 1)
           IN  [prefix |-> inner.prefix,
                excludedHashes |-> <<ex.hash>> \o inner.excludedHashes,
                numMessages |-> ex.items + inner.numMessages]
      ELSE [prefix |-> SubSeqTo(prefix, current_index),
            excludedHashes |-> <<ex.hash>>,
            numMessages |-> ex.items]

RECURSIVE getSnapshot(_, _, _)
\* TrieNode.getSnapshot(prefix, current_index)
getSnapshot(node, prefix, current_index) ==
  LET char == At(prefix, current_index)
      ex   == excludedHash(node, char)
  IN  IF current_index = Len(prefix) - 1
      THEN [prefix |-> prefix, excludedHashes |-> <<ex.hash>>, numMessages |-> ex.items]
      ELSE IF HasChild(node, char)
      THEN LET inner == getSnapshot(GetChild(node, char), prefix, current_index + 1)
           IN  [prefix |-> inner.prefix,
                excludedHashes |-> <<ex.hash>> \o inner.excludedHashes,
                numMessages |-> ex.items + inner.numMessages]
      ELSE [prefix |-> SubSeqTo(prefix, current_index + 1),
            excludedHashes |-> <<ex.hash>>,
            numMessages |-> ex.items]

\* The result of getNode / getTrieNodeMetadata when there is no such node.
Undefined == [undefined |-> TRUE]

RECURSIVE getNode(_, _)
\* TrieNode.getNode(prefix)
getNode(node, prefix) ==
  IF prefix = <<>> THEN node
  ELSE IF ~HasChild(node, prefix[1]) THEN Undefined
  ELSE getNode(GetChild(node, prefix[1]), Tail(prefix))

RECURSIVE getAllValues(_)
RECURSIVE ValuesOfEntries(_)
ValuesOfEntries(es) ==
  IF es = <<>> THEN <<>> ELSE getAllValues(es[1].n) \o ValuesOfEntries(Tail(es))

\* TrieNode.getAllValues()
getAllValues(node) ==
  IF isLeaf(node) THEN (IF node.key # NoKey THEN <<node.key>> ELSE <<>>)
  ELSE ValuesOfEntries(node.children)

(***************************************************************************)
(* MerkleTrie: the wrapper around the root node.                           *)
(***************************************************************************)
\* new MerkleTrie()
NewTrie == NewNode

\* MerkleTrie.insert(id) / delete(id) / exists(id): the root's, from index 0
trieInsert(t, id) == insert(t, id, 0)

trieDelete(t, id) == delete(t, id, 0)

trieExists(t, id) == exists(t, id, 0)

\* MerkleTrie.rootHash: the hash of the root node ('' for a trie never
\* written, EMPTY_HASH once its last item is deleted).
rootHash(t) == t.hash

\* MerkleTrie.items
items(t) == t.items

\* MerkleTrie.getSnapshot(prefix)
trieGetSnapshot(t, prefix) == getSnapshot(t, prefix, 0)

Min(a, b) == IF a < b THEN a ELSE b

\* MerkleTrie.getTrieNodeMetadata(prefix): the node at the prefix with one
\* level of children, or undefined
getTrieNodeMetadata(t, prefix) ==
  LET node == getNode(t, prefix) IN
  IF node = Undefined THEN Undefined
  ELSE [prefix |-> prefix,
        numMessages |-> node.items,
        hash |-> node.hash,
        children |-> [i \in 1..Len(node.children) |->
                        [c |-> node.children[i].c,
                         prefix |-> Append(prefix, node.children[i].c),
                         numMessages |-> node.children[i].n.items,
                         hash |-> node.children[i].n.hash]]]

\* MerkleTrie.getDivergencePrefix(prefix, peerExcludedHashes): the prefix cut
\* at the first index at which the local snapshot's excluded hash differs
\* from the peer's; the shorter of the two when every compared index agrees
getDivergencePrefix(t, prefix, excludedHashes) ==
  LET ours == trieGetSnapshot(t, prefix).excludedHashes
      n    == Min(Len(ours), Len(excludedHashes))
      diff == {i \in 1..n : ours[i] # excludedHashes[i]}
  IN  IF diff # {}
      THEN SubSeqTo(prefix, (CHOOSE i \in diff : \A j \in diff : i <= j) - 1)
      ELSE SubSeqTo(prefix, n)

(***************************************************************************)
(* The trie under insert, delete and exists calls.  S is the abstract set  *)
(* (keys inserted, unless the call aborted, and not later deleted), last   *)
(* the latest call with the trie and the set it found.                     *)
(***************************************************************************)
\* Timestamps and suffix bytes of the SyncIds of the model: two timestamps
\* of one ten-second bucket, one older; suffix bytes 9 and 10 sort
\* differently as numbers and as strings; two SyncIds differ in the last
\* byte only.
Keys ==
  { syncId(20, 9, 1), syncId(20, 10, 1), syncId(20, 10, 2),
    syncId(21, 9, 1), syncId(2, 9, 1) }

\* A mergeMessages call not yet made.
IdleMerge ==
  [pc |-> "idle",          \* idle, then the call awaited, then done
   messages |-> <<>>,      \* the messages argument, sorted in place
   i |-> 0,                \* the index of the message of the for loop
   signers |-> 0,          \* how many signer messages the peer returned
   mergeResults |-> <<>>,  \* mergeResults
   trace |-> <<>>]         \* the store and peer calls issued so far, each with
                           \* the message it was made for and how it returned

Call(op, k, res) ==
  [op |-> op, key |-> k, res |-> res, pre |-> root, preS |-> S]

NoCall == [op |-> "none", key |-> NoKey, res |-> "none", pre |-> NewTrie, preS |-> {}]

\* The events of the store's event handler that a stream can listen to
EventNames ==
  {"mergeMessage", "pruneMessage", "revokeMessage", "mergeIdRegistryEvent",
   "mergeNameRegistryEvent"}

StreamIds == {1, 2}

\* No listener of any stream on the emitter
NoListeners == [e \in EventNames |-> <<>>]

\* A stream no subscribe call was made on; late tells that an event was
\* written to the stream after its 'close'
NoStream == [state |-> "none", eventTypes |-> <<>>, late |-> FALSE]

NoStreams == [s \in StreamIds |-> NoStream]

Init ==
  /\ root = NewTrie
  /\ S = {}
  /\ deleted = FALSE
  /\ last = NoCall
  /\ peer = NewTrie
  /\ isSyncing = FALSE
  /\ calls = <<>>
  /\ mergeCall = IdleMerge
  /\ listeners = NoListeners
  /\ streams = NoStreams

Insert(k) ==
  LET out == trieInsert(root, k) IN
  /\ root' = out.n
  /\ S' = IF out.r = "throw" THEN S ELSE S \cup {k}
  /\ last' = Call("insert", k, out.r)
  /\ UNCHANGED <<deleted, syncVars, rpcVars>>

Delete(k) ==
  LET out == trieDelete(root, k) IN
  /\ root' = out.n
  /\ S' = S \ {k}
  /\ last' = Call("delete", k, out.r)
  /\ deleted' = TRUE
  /\ UNCHANGED <<syncVars, rpcVars>>

Exists(k) ==
  /\ last' = Call("exists", k, trieExists(root, k))
  /\ UNCHANGED <<root, S, deleted, syncVars, rpcVars>>

Next == \E k \in Keys : Insert(k) \/ Delete(k) \/ Exists(k)

Spec == Init /\ [][Next]_vars

(***************************************************************************)
(* getSnapshot asked of the tries that insert and delete build, once, for  *)
(* a prefix of a key (the empty prefix included).                          *)
(***************************************************************************)
SnapshotPrefixes == {SubSeq(k, 1, n) : k \in Keys, n \in 0..KeyLen}

GetSnapshot(prefix) ==
  /\ last.op # "getSnapshot"
  /\ last' = [op |-> "getSnapshot", key |-> prefix,
              res |-> getSnapshot(root, prefix, 0), pre |-> root, preS |-> S]
  /\ UNCHANGED <<root, S, deleted, syncVars, rpcVars>>

SnapshotNext ==
  \/ \E k \in Keys : Insert(k) \/ Delete(k)
  \/ \E prefix \in SnapshotPrefixes : GetSnapshot(prefix)

SnapshotSpec == Init /\ [][SnapshotNext]_vars

(***************************************************************************)
(* Claims about the trie under insert, delete and exists.                  *)
(***************************************************************************)
RECURSIVE InsertAll(_, _)
\* The keys of a set inserted one by one in a fixed order:
\* [n |-> the trie, ok |-> every insert returned true]
InsertAll(t, ks) ==
  IF ks = {} THEN [n |-> t, ok |-> TRUE]
  ELSE LET k   == CHOOSE x \in ks : TRUE
           out == trieInsert(t, k)
           rec == InsertAll(out.n, ks \ {k})
       IN  [n |-> rec.n, ok |-> out.r = "true" /\ rec.ok]

RECURSIVE Shape(_)
\* A node without its hashes: its key, and its children byte by byte.
Shape(node) ==
  [key |-> node.key,
   children |-> [i \in 1..Len(node.children) |->
                   [c |-> node.children[i].c, n |-> Shape(node.children[i].n)]]]

\* C1: while a newly constructed trie has only seen inserts of distinct
\* SyncIds, every insert completes, and the trie has the rootHash and the
\* items (= |S|) of the trie built from the same set S in another order.
C1_OrderIndependence ==
  (~deleted /\ last.op = "insert" /\ last.key \notin last.preS) =>
     /\ last.res = "true"
     /\ InsertAll(NewTrie, S).ok
     /\ rootHash(root) = rootHash(InsertAll(NewTrie, S).n)
     /\ items(root) = items(InsertAll(NewTrie, S).n)
     /\ items(root) = Cardinality(S)

\* C2: insert(s) of a SyncId s not stored, followed by delete(s), gives back
\* the trie as it was before the insert: same root hash, same items, same
\* nodes, keys and children at every depth.
C2_DeleteInvertsInsert ==
  [][ ( /\ last.op = "insert" /\ last.key \notin last.preS
        /\ last'.op = "delete" /\ last'.key = last.key )
      => ( /\ last.res = "true" /\ last'.res = "true"
           /\ rootHash(root') = rootHash(last.pre)
           /\ items(root') = items(last.pre)
           /\ Shape(root') = Shape(last.pre) ) ]_vars

\* C3: the trie behaves as the abstract set S: insert(k) returns true iff k
\* was not in S, delete(k) returns true iff k was in S, exists(k) is true
\* iff k is in S, and items equals |S|.
C3_SetRefinement ==
  /\ last.op = "insert" => (last.res = "true" <=> last.key \notin last.preS)
                           /\ last.res \in {"true", "false"}
  /\ last.op = "delete" => (last.res = "true" <=> last.key \in last.preS)
                           /\ last.res \in {"true", "false"}
  /\ last.op = "exists" => (last.res = "true" <=> last.key \in last.preS)
                           /\ last.res \in {"true", "false"}
  /\ items(root) = Cardinality(S)

\* C4: insert of a SyncId already stored and delete of a SyncId not stored
\* return false and leave rootHash, items and every node (hash, items, key,
\* children) as they were.
C4_NoChangeWhenSetUnchanged ==
  ( \/ (last.op = "insert" /\ last.key \in last.preS)
    \/ (last.op = "delete" /\ last.key \notin last.preS) )
  => (last.res = "false" /\ root = last.pre)

(***************************************************************************)
(* SyncEngine: the sync round (performSync) against a peer hub that runs   *)
(* the same code over its own trie.  A message is identified with its      *)
(* SyncId.                                                                 *)
(***************************************************************************)
\* syncEngine.ts: const SYNC_THRESHOLD_IN_SECONDS = 10
SYNC_THRESHOLD_IN_SECONDS == 10

\* syncEngine.ts: const HASHES_PER_FETCH (50 in the program; the tries of the
\* model hold a handful of SyncIds, so the threshold is scaled with them).
HASHES_PER_FETCH == 2

\* Results of getFarcasterTime(): seconds on the Farcaster clock, or an error.
FarcasterTimes ==
  {[ok |-> TRUE, value |-> t] : t \in {25, 205}} \cup {[ok |-> FALSE, value |-> 0]}

\* get snapshotTimestamp(): the latest multiple of the threshold
snapshotTimestamp(farcasterTime) ==
  (farcasterTime \div SYNC_THRESHOLD_IN_SECONDS) * SYNC_THRESHOLD_IN_SECONDS

\* get snapshot(): the prefix handed to getSnapshot
snapshotPrefix(farcasterTime) ==
  timestampToPaddedTimestampPrefix(snapshotTimestamp(farcasterTime) \div 10)

\* get snapshot(): the trie's snapshot for the prefix of the current time
snapshot(t, farcasterTime) == trieGetSnapshot(t, snapshotPrefix(farcasterTime))

\* SyncEngine.getAllSyncIdsByPrefix(prefix)
getAllSyncIdsByPrefix(t, prefix) ==
  LET node == getNode(t, prefix) IN
  IF node = Undefined THEN <<>> ELSE getAllValues(node)

\* toTrieNodeMetadataResponse handing every child the prefix of its parent
toTrieNodeMetadataResponseParentPrefix(metadata) ==
  IF metadata = Undefined
  THEN [prefix |-> <<>>, numMessages |-> 0, hash |-> NoHash, children |-> <<>>]
  ELSE [prefix |-> metadata.prefix,
        numMessages |-> metadata.numMessages,
        hash |-> metadata.hash,
        children |-> [i \in 1..Len(metadata.children) |->
                        [prefix |-> metadata.prefix,
                         numMessages |-> metadata.children[i].numMessages,
                         hash |-> metadata.children[i].hash,
                         children |-> <<>>]]]

\* Server.getSyncMetadataByPrefix: the metadata as sent on the wire
toTrieNodeMetadataResponse(metadata) ==
  IF metadata = Undefined
  THEN [prefix |-> <<>>, numMessages |-> 0, hash |-> NoHash, children |-> <<>>]
  ELSE [prefix |-> metadata.prefix,
        numMessages |-> metadata.numMessages,
        hash |-> metadata.hash,
        children |-> [i \in 1..Len(metadata.children) |->
                        [prefix |-> metadata.children[i].prefix,
                         numMessages |-> metadata.children[i].numMessages,
                         hash |-> metadata.children[i].hash,
                         children |-> <<>>]]]

\* fromNodeMetadataResponse(response): the children keyed by the last byte
\* of their prefix, children without a prefix dropped
fromNodeMetadataResponse(response) ==
  LET kept == SelectSeq(response.children, LAMBDA ch : Len(ch.prefix) > 0) IN
  [prefix |-> response.prefix,
   numMessages |-> response.numMessages,
   hash |-> response.hash,
   children |-> [i \in 1..Len(kept) |->
                   [c |-> kept[i].prefix[Len(kept[i].prefix)],
                    prefix |-> kept[i].prefix,
                    numMessages |-> kept[i].numMessages,
                    hash |-> kept[i].hash]]]

\* ourNode?.children?.get(char)?.hash
ourChildHash(ourNode, char) ==
  IF ourNode = Undefined THEN <<"undefined">>
  ELSE LET hit == SelectSeq(ourNode.children, LAMBDA ch : ch.c = char)
       IN  IF hit = <<>> THEN <<"undefined">> ELSE hit[1].hash

RECURSIVE ParseInt(_)
\* parseInt of a string of decimal digits
ParseInt(ds) ==
  IF ds = <<>> THEN 0
  ELSE 10 * ParseInt(SubSeq(ds, 1, Len(ds) - 1)) + (ds[Len(ds)] - 48)

\* message.data.timestamp of the message a SyncId names
timestampOf(id) == ParseInt(SubSeq(id, 1, TIMESTAMP_LENGTH))

RECURSIVE sortByTimestamp(_)
\* messages.sort((a, b) => a.timestamp - b.timestamp): stable, ascending
sortByTimestamp(ms) ==
  IF ms = <<>> THEN <<>>
  ELSE LET m == CHOOSE i \in 1..Len(ms) :
                  \A j \in 1..Len(ms) :
                     \/ timestampOf(ms[i]) < timestampOf(ms[j])
                     \/ (timestampOf(ms[i]) = timestampOf(ms[j]) /\ i <= j)
           rest == [k \in 1..(Len(ms) - 1) |-> IF k < m THEN ms[k] ELSE ms[k + 1]]
       IN  <<ms[m]>> \o sortByTimestamp(rest)

\* A performSync call not yet made.
IdleCall ==
  [pc |-> "idle",        \* idle, then the reply awaited: meta, ids, msgs, merge; done
   h |-> <<>>,           \* the excludedHashes argument
   div |-> <<>>,         \* the divergence prefix
   wait |-> [prefix |-> <<>>, our |-> Undefined],   \* the request in flight
   stack |-> <<>>,       \* the loops of fetchMissingHashesByNode under way
   missing |-> <<>>,     \* the SyncIds collected
   queue |-> <<>>,       \* the messages still to merge
   reqs |-> <<>>,        \* the requests sent to the peer, in order
   merged |-> <<>>,      \* the results of mergeMessage, in order
   honest |-> FALSE,     \* h is the peer's snapshot for the local prefix
   identical |-> FALSE,  \* h equals the local snapshot's excludedHashes
   local0 |-> {},        \* the SyncIds stored locally when the round began
   overlapped |-> FALSE, \* _isSyncing was already true when the call began
   rpcFailed |-> FALSE,  \* a peer RPC of the round returned an error
   failed |-> FALSE,     \* some call to the peer or the store failed or threw
   walked |-> FALSE,     \* fetchMissingHashesByPrefix has returned
   raised |-> FALSE]     \* performSync let an exception out

Request(m, arg) == [m |-> m, arg |-> arg]

\* performSync: the finally block has run, the call has returned
finally(cr) == [cr EXCEPT !.pc = "done"]

\* performSync: catch (e) { log.warn } and then the finally block
caught(cr) == finally([cr EXCEPT !.failed = TRUE, !.raised = FALSE])

\* performSync without its finally block: the flag stays as it is
finallyIsSyncingKept(cr, current) == current

\* performSync: finally { this._isSyncing = false }
finallyIsSyncing(cr, current) == IF cr.pc = "done" THEN FALSE ELSE current

\* fetchMissingHashesByPrefix(prefix), up to its await
fetchMissingHashesByPrefix(cr, t, prefix) ==
  [cr EXCEPT !.pc = "meta",
             !.wait = [prefix |-> prefix, our |-> getTrieNodeMetadata(t, prefix)],
             !.reqs = Append(@, Request("getSyncMetadataByPrefix", prefix))]

\* fetchAndMergeMessages(syncIds), up to its await
fetchAndMergeMessages(cr) ==
  IF cr.missing = <<>> THEN finally(cr)
  ELSE [cr EXCEPT !.pc = "msgs",
                  !.reqs = Append(@, Request("getAllMessagesBySyncIds", cr.missing))]

RECURSIVE nextChildFirst(_)
\* The for loop leaving a node at its first differing child: the siblings
\* after it are never looked at
nextChildFirst(stack) ==
  IF stack = <<>> THEN [stack |-> <<>>, found |-> FALSE, prefix |-> <<>>]
  ELSE LET top   == stack[Len(stack)]
           below == SubSeq(stack, 1, Len(stack) - 1)
       IN  IF top.todo = <<>> THEN nextChildFirst(below)
           ELSE LET ch == Head(top.todo)
                IN  IF ourChildHash(top.our, ch.c) # ch.hash
                    THEN [stack |-> Append(below, [top EXCEPT !.todo = <<>>]),
                          found |-> TRUE, prefix |-> ch.prefix]
                    ELSE nextChildFirst(Append(below, [top EXCEPT !.todo = Tail(@)]))

RECURSIVE nextChild(_)
\* fetchMissingHashesByNode: the for loop up to the next child whose hash
\* differs from ours: [stack, found, prefix]
nextChild(stack) ==
  IF stack = <<>> THEN [stack |-> <<>>, found |-> FALSE, prefix |-> <<>>]
  ELSE LET top   == stack[Len(stack)]
           below == SubSeq(stack, 1, Len(stack) - 1)
       IN  IF top.todo = <<>> THEN nextChild(below)
           ELSE LET ch == Head(top.todo)
                    st == Append(below, [top EXCEPT !.todo = Tail(@)])
                IN  IF ourChildHash(top.our, ch.c) # ch.hash
                    THEN [stack |-> st, found |-> TRUE, prefix |-> ch.prefix]
                    ELSE nextChild(st)

\* The walk after a fetchMissingHashesByPrefix returned: on to the next
\* child, or back in performSync with the SyncIds collected.
resume(cr, t) ==
  LET nx == nextChild(cr.stack) IN
  IF nx.found THEN fetchMissingHashesByPrefix([cr EXCEPT !.stack = nx.stack], t, nx.prefix)
  ELSE fetchAndMergeMessages([cr EXCEPT !.stack = <<>>, !.walked = TRUE])

\* fetchMissingHashesByNode fetching all ids of a node only below the
\* threshold, not at it
fetchMissingHashesByNodeBelow(cr, t, theirNode, ourNode) ==
  IF theirNode.numMessages < HASHES_PER_FETCH
  THEN [cr EXCEPT !.pc = "ids",
                  !.wait = [prefix |-> theirNode.prefix, our |-> ourNode],
                  !.reqs = Append(@, Request("getAllSyncIdsByPrefix", theirNode.prefix))]
  ELSE resume([cr EXCEPT !.stack = Append(@, [our |-> ourNode, todo |-> theirNode.children])], t)

\* fetchMissingHashesByNode(theirNode, ourNode), up to its await
fetchMissingHashesByNode(cr, t, theirNode, ourNode) ==
  IF theirNode.numMessages <= HASHES_PER_FETCH
  THEN [cr EXCEPT !.pc = "ids",
                  !.wait = [prefix |-> theirNode.prefix, our |-> ourNode],
                  !.reqs = Append(@, Request("getAllSyncIdsByPrefix", theirNode.prefix))]
  ELSE resume([cr EXCEPT !.stack = Append(@, [our |-> ourNode, todo |-> theirNode.children])], t)

Outcomes == {"ok", "err", "throw"}

\* The SyncIds of stored messages: their hashes are BLAKE3 digests, which
\* differ before their last byte.
SyncKeys ==
  { syncId(20, 9, 1), syncId(20, 10, 1), syncId(21, 9, 1), syncId(2, 9, 1) }

SyncCalls == {1}

\* The excludedHashes a caller of performSync may hold: a snapshot of the
\* peer for the prefix of some time, or nothing.
PeerHashes == {snapshot(peer, ft.value).excludedHashes : ft \in {x \in FarcasterTimes : x.ok}} \cup {<<>>}

Stored(t) == {getAllValues(t)[i] : i \in 1..Len(getAllValues(t))}

\* Two hubs just constructed, no sync round begun.
SyncInit ==
  /\ root = NewTrie
  /\ S = {}
  /\ deleted = FALSE
  /\ last = NoCall
  /\ peer = NewTrie
  /\ isSyncing = FALSE
  /\ calls = [c \in SyncCalls |-> IdleCall]
  /\ mergeCall = IdleMerge
  /\ listeners = NoListeners
  /\ streams = NoStreams

\* No performSync call has begun: the two stores are still being filled.
NoRound == last.op = "none" /\ \A c \in DOMAIN calls : calls[c].pc = "idle"

\* addMessage(message): the local store merged a message of its own
AddMessage(k) ==
  /\ NoRound
  /\ root' = trieInsert(root, k).n
  /\ S' = S \cup {k}
  /\ UNCHANGED <<deleted, last, syncVars, rpcVars>>

\* addMessage(message) on the peer hub
PeerAddMessage(k) ==
  /\ NoRound
  /\ peer' = trieInsert(peer, k).n
  /\ UNCHANGED <<trieVars, isSyncing, calls, mergeCall, rpcVars>>

\* performSync(excludedHashes, rpcClient), up to its first await
PerformSync(c, ft, h) ==
  /\ calls[c].pc = "idle"
  /\ LET cr  == [calls[c] EXCEPT !.h = h, !.local0 = Stored(root),
                                  !.overlapped = isSyncing]
         cr2 == IF ~ft.ok THEN finally([cr EXCEPT !.failed = TRUE])
                ELSE LET ourSnapshot == snapshot(root, ft.value)
                         div == getDivergencePrefix(root, ourSnapshot.prefix, h)
                     IN  fetchMissingHashesByPrefix(
                           [cr EXCEPT !.div = div,
                                      !.identical = (h = ourSnapshot.excludedHashes),
                                      !.honest = (h = snapshot(peer, ft.value).excludedHashes)],
                           root, div)
     IN  /\ calls' = [calls EXCEPT ![c] = cr2]
         /\ isSyncing' = finallyIsSyncing(cr2, TRUE)
  /\ UNCHANGED <<trieVars, peer, mergeCall, rpcVars>>

\* The reply to getSyncMetadataByPrefix arrives.
MetadataReply(c, out) ==
  /\ calls[c].pc = "meta"
  /\ LET cr  == calls[c]
         cr2 == IF out = "ok"
                THEN fetchMissingHashesByNode(cr, root,
                       fromNodeMetadataResponse(toTrieNodeMetadataResponse(
                         getTrieNodeMetadata(peer, cr.wait.prefix))),
                       cr.wait.our)
                ELSE IF out = "err" THEN resume([cr EXCEPT !.failed = TRUE, !.rpcFailed = TRUE], root)
                ELSE caught(cr)
     IN  /\ calls' = [calls EXCEPT ![c] = cr2]
         /\ isSyncing' = finallyIsSyncing(cr2, isSyncing)
  /\ UNCHANGED <<trieVars, peer, mergeCall, rpcVars>>

\* The reply to getAllSyncIdsByPrefix arrives.
SyncIdsReply(c, out) ==
  /\ calls[c].pc = "ids"
  /\ LET cr  == calls[c]
         cr2 == IF out = "ok"
                THEN resume([cr EXCEPT !.missing =
                               @ \o getAllSyncIdsByPrefix(peer, cr.wait.prefix)], root)
                ELSE IF out = "err" THEN resume([cr EXCEPT !.failed = TRUE, !.rpcFailed = TRUE], root)
                ELSE caught(cr)
     IN  /\ calls' = [calls EXCEPT ![c] = cr2]
         /\ isSyncing' = finallyIsSyncing(cr2, isSyncing)
  /\ UNCHANGED <<trieVars, peer, mergeCall, rpcVars>>

\* The reply to getAllMessagesBySyncIds arrives; mergeMessages sorts it.
MessagesReply(c, out) ==
  /\ calls[c].pc = "msgs"
  /\ LET cr  == calls[c]
         cr2 == IF out = "ok"
                THEN [cr EXCEPT !.pc = "merge", !.queue = sortByTimestamp(cr.missing)]
                ELSE IF out = "err" THEN finally([cr EXCEPT !.failed = TRUE, !.rpcFailed = TRUE])
                ELSE caught(cr)
     IN  /\ calls' = [calls EXCEPT ![c] = cr2]
         /\ isSyncing' = finallyIsSyncing(cr2, isSyncing)
  /\ UNCHANGED <<trieVars, peer, mergeCall, rpcVars>>

\* engine.mergeMessage(msg) completes, the retry of syncUserAndRetryMessage
\* for an unknown user included in its outcome; a merged message comes back
\* as a mergeMessage event, which inserts its SyncId into the trie.
MergeMessage(c, out) ==
  /\ calls[c].pc = "merge"
  /\ LET cr  == calls[c]
         msg == Head(cr.queue)
         cr1 == [cr EXCEPT !.queue = Tail(@), !.merged = Append(@, out),
                           !.failed = @ \/ out # "ok"]
         cr2 == IF out = "throw" THEN caught(cr)
                ELSE IF cr1.queue = <<>> THEN finally(cr1) ELSE cr1
     IN  /\ calls' = [calls EXCEPT ![c] = cr2]
         /\ isSyncing' = finallyIsSyncing(cr2, isSyncing)
         /\ root' = IF out = "ok" THEN trieInsert(root, msg).n ELSE root
         /\ S' = IF out = "ok" THEN S \cup {msg} ELSE S
  /\ UNCHANGED <<deleted, last, peer, mergeCall, rpcVars>>

SyncNext ==
  \/ \E k \in SyncKeys : AddMessage(k) \/ PeerAddMessage(k)
  \/ \E c \in SyncCalls :
    \/ \E ft \in FarcasterTimes, h \in PeerHashes : PerformSync(c, ft, h)
    \/ \E out \in Outcomes : MetadataReply(c, out)
    \/ \E out \in Outcomes : SyncIdsReply(c, out)
    \/ \E out \in Outcomes : MessagesReply(c, out)
    \/ \E out \in Outcomes : MergeMessage(c, out)

SyncSpec == SyncInit /\ [][SyncNext]_vars

\* The call awaited by performSync call c completes with the given outcome.
Completes(c, out) ==
  \/ MetadataReply(c, out)
  \/ SyncIdsReply(c, out)
  \/ MessagesReply(c, out)
  \/ MergeMessage(c, out)

\* The sync round with every awaited peer RPC and store call completing,
\* by an exception or with a result.
SyncFairSpec ==
  /\ SyncSpec
  /\ \A c \in SyncCalls :
       WF_vars(\/ Completes(c, "throw")
               \/ \E out \in Outcomes : Completes(c, out))

(***************************************************************************)
(* Two performSync calls on one engine, the second possibly made while the *)
(* first is awaiting a reply.                                              *)
(***************************************************************************)
OverlapCalls == {1, 2}

\* The SyncIds the two hubs may hold in the runs with two calls.
OverlapKeys == { syncId(20, 9, 1), syncId(2, 9, 1) }

\* The readings of the clock in the runs with two calls.
OverlapTimes == {ft \in FarcasterTimes : ft.ok => ft.value = 25}

OverlapInit ==
  /\ root = NewTrie
  /\ S = {}
  /\ deleted = FALSE
  /\ last = NoCall
  /\ peer = NewTrie
  /\ isSyncing = FALSE
  /\ calls = [c \in OverlapCalls |-> IdleCall]
  /\ mergeCall = IdleMerge
  /\ listeners = NoListeners
  /\ streams = NoStreams

OverlapNext ==
  \/ \E k \in OverlapKeys : AddMessage(k) \/ PeerAddMessage(k)
  \/ \E c \in OverlapCalls :
    \/ \E ft \in OverlapTimes, h \in PeerHashes : PerformSync(c, ft, h)
    \/ \E out \in Outcomes : MetadataReply(c, out)
    \/ \E out \in Outcomes : SyncIdsReply(c, out)
    \/ \E out \in Outcomes : MessagesReply(c, out)
    \/ \E out \in Outcomes : MergeMessage(c, out)

OverlapSpec == OverlapInit /\ [][OverlapNext]_vars

(***************************************************************************)
(* shouldSync and the default snapshot, asked at any moment of a hub's     *)
(* life: between rounds, after messages came and went, during a round.     *)
(***************************************************************************)
\* shouldSync with the length of the two lists left uncompared
shouldSyncNoLength(t, syncing, ft, h) ==
  IF syncing THEN [ok |-> TRUE, value |-> FALSE]
  ELSE IF ~ft.ok THEN [ok |-> FALSE, value |-> FALSE]
  ELSE LET ours  == snapshot(t, ft.value).excludedHashes
           match == \A i \in 1..Len(ours) : i <= Len(h) /\ ours[i] = h[i]
       IN  [ok |-> TRUE, value |-> ~match]

\* shouldSync(excludedHashes): ok(false) while syncing, the error of the
\* time source, else ok(the lists do not match)
shouldSync(t, syncing, ft, h) ==
  IF syncing THEN [ok |-> TRUE, value |-> FALSE]
  ELSE IF ~ft.ok THEN [ok |-> FALSE, value |-> FALSE]
  ELSE LET ours  == snapshot(t, ft.value).excludedHashes
           match == /\ Len(ours) = Len(h)
                    /\ \A i \in 1..Len(ours) : ours[i] = h[i]
       IN  [ok |-> TRUE, value |-> ~match]

\* removeMessage(message)
RemoveMessage(k) ==
  /\ NoRound
  /\ root' = trieDelete(root, k).n
  /\ S' = S \ {k}
  /\ deleted' = TRUE
  /\ UNCHANGED <<last, syncVars, rpcVars>>

\* One shouldSync call, its answer and the prefix of the snapshot it took
\* kept in last.
ShouldSync(ft, h) ==
  /\ last.op = "none"
  /\ last' = [op |-> "shouldSync", ft |-> ft, h |-> h, syncing |-> isSyncing,
              key |-> IF ft.ok THEN snapshotPrefix(ft.value) ELSE NoKey,
              res |-> shouldSync(root, isSyncing, ft, h),
              pre |-> root, preS |-> S]
  /\ UNCHANGED <<root, S, deleted, syncVars, rpcVars>>

SnapNext ==
  \/ \E k \in OverlapKeys : AddMessage(k) \/ RemoveMessage(k) \/ PeerAddMessage(k)
  \/ /\ last.op = "none"
     /\ \E c \in SyncCalls :
       \/ \E ft \in FarcasterTimes, h \in PeerHashes : PerformSync(c, ft, h)
       \/ \E out \in Outcomes : MetadataReply(c, out)
       \/ \E out \in Outcomes : SyncIdsReply(c, out)
       \/ \E out \in Outcomes : MessagesReply(c, out)
       \/ \E out \in Outcomes : MergeMessage(c, out)
  \/ \E ft \in FarcasterTimes, h \in PeerHashes : ShouldSync(ft, h)

SnapSpec == SyncInit /\ [][SnapNext]_vars

(***************************************************************************)
(* mergeMessages(messages, rpcClient) and syncUserAndRetryMessage: one     *)
(* call, each await a step.  The store (engine) and the peer (rpcClient)   *)
(* are the environment: every HubResult they may return is an input.       *)
(***************************************************************************)
MaxMessages == 2
MaxSigners == 1

\* protobufs.Message: data absent (<<>>) or present with timestamp and fid;
\* id is the place of the message in the argument.
MessageData ==
  {<<>>} \cup {<<[timestamp |-> t, fid |-> f]>> : t \in {1, 2}, f \in {0, 7}}

MessageLists ==
  UNION {[1..n -> MessageData] : n \in 0..MaxMessages}

WithIds(datas) == [j \in 1..Len(datas) |-> [id |-> j, data |-> datas[j]]]

\* a.data?.timestamp || 0
timestampOr0(msg) == IF msg.data = <<>> THEN 0 ELSE msg.data[1].timestamp

\* !message.data?.fid
noFid(msg) == msg.data = <<>> \/ msg.data[1].fid = 0

fidOf(msg) == msg.data[1].fid

\* messages.sort with the messages left in the order they came
sortMessagesUnsorted(ms) == ms

RECURSIVE sortMessages(_)
\* messages.sort((a, b) => (a.data?.timestamp || 0) - (b.data?.timestamp || 0))
sortMessages(ms) ==
  IF ms = <<>> THEN <<>>
  ELSE LET m == CHOOSE j \in 1..Len(ms) :
                  \A k \in 1..Len(ms) :
                     \/ timestampOr0(ms[j]) < timestampOr0(ms[k])
                     \/ (timestampOr0(ms[j]) = timestampOr0(ms[k]) /\ j <= k)
           rest == [k \in 1..(Len(ms) - 1) |-> IF k < m THEN ms[k] ELSE ms[k + 1]]
       IN  <<ms[m]>> \o sortMessages(rest)

\* HubResult<void>: ok, or err(HubError(errCode, message)); a message is the
\* sequence of its words.
Ok == [ok |-> TRUE, errCode |-> "", message |-> <<>>]

Err(errCode, message) == [ok |-> FALSE, errCode |-> errCode, message |-> message]

\* What engine.mergeMessage may return.
MergeOutcomes ==
  { Ok,
    Err("bad_request.validation_failure", <<"invalid", "signer">>),
    Err("bad_request.validation_failure", <<"unknown", "fid", "7">>),
    Err("bad_request.validation_failure", <<"invalid", "signer", "key">>),
    Err("bad_request.duplicate", <<"invalid", "signer">>) }

\* What engine.mergeMessage may return when a message is retried.
RetryOutcomes ==
  { Ok, Err("bad_request.validation_failure", <<"invalid", "signer">>) }

\* String.prototype.startsWith
startsWith(str, head) ==
  Len(head) <= Len(str) /\ SubSeq(str, 1, Len(head)) = head

\* the test of mergeMessages with the errCode left untested
isUnknownUserAnyCode(result) ==
  /\ ~result.ok
  /\ \/ result.message = <<"invalid", "signer">>
     \/ startsWith(result.message, <<"unknown", "fid">>)

\* mergeMessages: the result is the error of an unknown user
isUnknownUser(result) ==
  /\ ~result.ok
  /\ result.errCode = "bad_request.validation_failure"
  /\ \/ result.message = <<"invalid", "signer">>
     \/ startsWith(result.message, <<"unknown", "fid">>)

\* A call to the store or the peer is made and awaited.
Issue(mc, call, arg) ==
  [mc EXCEPT !.trace = Append(@, [call |-> call, msg |-> mc.messages[mc.i].id,
                                  arg |-> arg, out |-> "pending",
                                  result |-> Ok, merged |-> 0])]

\* The awaited call returns.
Returned(mc, isOk, result, merged) ==
  [mc EXCEPT !.trace[Len(mc.trace)] =
     [@ EXCEPT !.out = IF isOk THEN "ok" ELSE "err",
               !.result = result, !.merged = merged]]

\* mergeResults.push(result), then the next turn of the for loop or the return
push(mc, result) ==
  LET mc1 == [mc EXCEPT !.mergeResults = Append(@, result), !.signers = 0] IN
  IF mc.i = Len(mc.messages) THEN [mc1 EXCEPT !.pc = "done"]
  ELSE LET mc2 == [mc1 EXCEPT !.i = @ + 1] IN
       [Issue(mc2, "mergeMessage", mc2.messages[mc2.i].id)
          EXCEPT !.pc = "mergeMessage"]

\* mergeMessages(messages, rpcClient), up to its first await
MergeMessages(datas) ==
  /\ mergeCall.pc = "idle"
  /\ LET mc == [mergeCall EXCEPT !.messages = sortMessages(WithIds(datas))] IN
     mergeCall' = IF mc.messages = <<>> THEN [mc EXCEPT !.pc = "done"]
                  ELSE LET mc1 == [mc EXCEPT !.i = 1] IN
                       [Issue(mc1, "mergeMessage", mc1.messages[1].id)
                          EXCEPT !.pc = "mergeMessage"]
  /\ UNCHANGED <<trieVars, peer, isSyncing, calls, rpcVars>>

\* syncUserAndRetryMessage(message, rpcClient), up to its first await
syncUserAndRetryMessage(mc) ==
  LET message == mc.messages[mc.i] IN
  IF noFid(message)
  THEN push(mc, Err("bad_request.invalid_param", <<"Invalid", "fid">>))
  ELSE [Issue(mc, "getIdRegistryEvent", fidOf(message))
          EXCEPT !.pc = "getIdRegistryEvent"]

\* await this.engine.mergeMessage(msg) returns in the for loop
MergeMessageReturns(result) ==
  /\ mergeCall.pc = "mergeMessage"
  /\ LET mc == Returned(mergeCall, result.ok, result, 0) IN
     mergeCall' = IF isUnknownUser(result)
                  THEN syncUserAndRetryMessage(mc)
                  ELSE push(mc, result)
  /\ UNCHANGED <<trieVars, peer, isSyncing, calls, rpcVars>>

\* await rpcClient.getIdRegistryEvent returns
GetIdRegistryEventReturns(isOk) ==
  /\ mergeCall.pc = "getIdRegistryEvent"
  /\ LET mc == Returned(mergeCall, isOk, Ok, 0) IN
     mergeCall' =
       IF ~isOk
       THEN push(mc, Err("unavailable.network_failure",
                         <<"Failed", "to", "fetch", "custody", "event">>))
       ELSE [Issue(mc, "mergeIdRegistryEvent", fidOf(mc.messages[mc.i]))
               EXCEPT !.pc = "mergeIdRegistryEvent"]
  /\ UNCHANGED <<trieVars, peer, isSyncing, calls, rpcVars>>

\* mergeIdRegistryEvent returns and its error is passed over
MergeIdRegistryEventReturnsErrIgnored(isOk) ==
  /\ mergeCall.pc = "mergeIdRegistryEvent"
  /\ LET mc == Returned(mergeCall, isOk, Ok, 0) IN
     mergeCall' =
       [Issue(mc, "getAllSignerMessagesByFid", fidOf(mc.messages[mc.i]))
          EXCEPT !.pc = "getAllSignerMessagesByFid"]
  /\ UNCHANGED <<trieVars, peer, isSyncing, calls, rpcVars>>

\* await this.engine.mergeIdRegistryEvent returns
MergeIdRegistryEventReturns(isOk) ==
  /\ mergeCall.pc = "mergeIdRegistryEvent"
  /\ LET mc == Returned(mergeCall, isOk, Ok, 0) IN
     mergeCall' =
       IF ~isOk
       THEN push(mc, Err("unavailable.storage_failure",
                         <<"Failed", "to", "merge", "custody", "event">>))
       ELSE [Issue(mc, "getAllSignerMessagesByFid", fidOf(mc.messages[mc.i]))
               EXCEPT !.pc = "getAllSignerMessagesByFid"]
  /\ UNCHANGED <<trieVars, peer, isSyncing, calls, rpcVars>>

\* await rpcClient.getAllSignerMessagesByFid returns: an error, or n messages
GetAllSignerMessagesByFidReturns(isOk, n) ==
  /\ mergeCall.pc = "getAllSignerMessagesByFid"
  /\ LET mc == Returned(mergeCall, isOk, Ok, 0) IN
     mergeCall' =
       IF ~isOk
       THEN push(mc, Err("unavailable.network_failure",
                         <<"Failed", "to", "fetch", "signer", "messages">>))
       ELSE [Issue(mc, "mergeMessages", n)
               EXCEPT !.pc = "mergeMessages", !.signers = n]
  /\ UNCHANGED <<trieVars, peer, isSyncing, calls, rpcVars>>

\* results.every((r) => r.isErr()) with an empty list counted as a success
everyIsErrNonEmpty(results) ==
  results # <<>> /\ \A j \in 1..Len(results) : ~results[j]

\* results.every((r) => r.isErr())
everyIsErr(results) == \A j \in 1..Len(results) : ~results[j]

\* await this.engine.mergeMessages(signer messages) returns, results[j] true
\* for a signer message that merged
MergeSignersReturns(results) ==
  /\ mergeCall.pc = "mergeMessages"
  /\ Len(results) = mergeCall.signers
  /\ LET merged == Cardinality({j \in 1..Len(results) : results[j]})
         mc     == Returned(mergeCall, merged > 0, Ok, merged)
     IN  mergeCall' =
           IF everyIsErr(results)
           THEN push(mc, Err("unavailable.storage_failure",
                             <<"Failed", "to", "merge", "signer", "messages">>))
           ELSE [Issue(mc, "mergeMessage", mc.messages[mc.i].id)
                   EXCEPT !.pc = "retry"]
  /\ UNCHANGED <<trieVars, peer, isSyncing, calls, rpcVars>>

\* (await this.engine.mergeMessage(message)).mapErr(...)
mapErr(result) ==
  IF result.ok THEN result
  ELSE Err("unavailable.storage_failure", result.message)

\* the retry of the message returns
RetryReturns(result) ==
  /\ mergeCall.pc = "retry"
  /\ mergeCall' = push(Returned(mergeCall, result.ok, result, 0), mapErr(result))
  /\ UNCHANGED <<trieVars, peer, isSyncing, calls, rpcVars>>

MergeNext ==
  \/ \E datas \in MessageLists : MergeMessages(datas)
  \/ \E result \in MergeOutcomes : MergeMessageReturns(result)
  \/ \E isOk \in BOOLEAN : GetIdRegistryEventReturns(isOk)
  \/ \E isOk \in BOOLEAN : MergeIdRegistryEventReturns(isOk)
  \/ \E isOk \in BOOLEAN, n \in 0..MaxSigners : GetAllSignerMessagesByFidReturns(isOk, n)
  \/ \E n \in 0..MaxSigners : \E results \in [1..n -> BOOLEAN] : MergeSignersReturns(results)
  \/ \E result \in RetryOutcomes : RetryReturns(result)

MergeSpec == SyncInit /\ [][MergeNext]_vars

(***************************************************************************)
(* getSnapshot and getDivergencePrefix as functions of two tries, a prefix *)
(* and a list of excluded hashes.                                          *)
(***************************************************************************)
\* The prefixes asked about: every prefix of a stored SyncId.
Prefixes == {SubSeq(k, 1, n) : k \in SyncKeys, n \in 0..KeyLen}

\* trie.getDivergencePrefix(p, h) on the local trie
GetDivergencePrefix(p, h) ==
  /\ NoRound
  /\ last' = [op |-> "getDivergencePrefix", key |-> p, h |-> h,
              res |-> getDivergencePrefix(root, p, h), pre |-> root, preS |-> S]
  /\ UNCHANGED <<root, S, deleted, syncVars, rpcVars>>

DivNext ==
  \/ \E k \in SyncKeys : AddMessage(k) \/ PeerAddMessage(k)
  \/ \E p \in Prefixes :
    \/ \E q \in Prefixes : GetDivergencePrefix(p, trieGetSnapshot(peer, q).excludedHashes)
    \/ GetDivergencePrefix(p, <<>>)

DivSpec == SyncInit /\ [][DivNext]_vars

(***************************************************************************)
(* The SyncId codec with the widths of the source: SyncId.syncId and       *)
(* SyncId.pkFromSyncId over whole messages.  The store's key helpers       *)
(* (~/storage/db/message, ~/storage/db/types) follow the primary-key       *)
(* layout [family prefix | fid (4) | set postfix (1) | tsHash].            *)
(***************************************************************************)
HASH_LENGTH == 20

FID_BYTES == 4

\* RootPrefix.User, the constant byte of the message family
UserPrefix == 1

\* Buffer.writeUInt32BE(n, 0) on Buffer.alloc(4): RangeError outside u32.
\* (Numbers of the model end at 2^31 - 1, inside the accepted range.)
writeUInt32BE(n) ==
  IF n < 0 THEN "RangeError"
  ELSE <<(n \div 16777216) % 256, (n \div 65536) % 256, (n \div 256) % 256, n % 256>>

\* typeToSetPostfix: an add type and its remove type share one set
typeToSetPostfix(type) == (type + 1) \div 2

\* makeMessagePrimaryKey(fid, set, tsHash): the user key, the set, the tail
makeMessagePrimaryKey(fid, set, tsHash) ==
  <<UserPrefix>> \o writeUInt32BE(fid) \o <<set>> \o tsHash

\* makeTsHash(timestamp, hash): the timestamp, big-endian, then the hash
makeTsHash(timestamp, hash) == writeUInt32BE(timestamp) \o hash

\* The key the store keeps message m under
primaryKey(m) ==
  makeMessagePrimaryKey(m.fid, typeToSetPostfix(m.type), makeTsHash(m.timestamp, m.hash))

\* SyncId.syncId() with the tsHash in the place of the hash
SyncId_syncIdTsHash(m) ==
  timestampToPaddedTimestampPrefix(m.timestamp)
    \o makeMessagePrimaryKey(m.fid, typeToSetPostfix(m.type), makeTsHash(m.timestamp, m.hash))

\* new SyncId(message).syncId(): the fields of the constructor (absent data
\* reads as 0), the padded timestamp, then the primary key built on the hash
SyncId_syncId(m) ==
  timestampToPaddedTimestampPrefix(m.timestamp)
    \o makeMessagePrimaryKey(m.fid, typeToSetPostfix(m.type), m.hash)

\* SyncId.pkFromSyncId without the timestamp put back
pkFromSyncIdNoTimestamp(id) == SubSeq(id, TIMESTAMP_LENGTH + 1, Len(id))

\* SyncId.pkFromSyncId(syncId) of a Buffer: a zeroed array of
\* ts_offset + 4 + HASH_LENGTH bytes, set in three pieces; pk.set throws a
\* RangeError when the last piece does not fit.
pkFromSyncId(id) ==
  LET ts         == SubSeq(id, 1, TIMESTAMP_LENGTH)
      tsBE       == writeUInt32BE(ParseInt(ts))
      syncIDpart == SubSeq(id, TIMESTAMP_LENGTH + 1, Len(id))
      ts_offset  == 1 + FID_BYTES + 1
      head       == SubSeq(syncIDpart, 1, ts_offset)
      tail       == SubSeq(syncIDpart, ts_offset + 1, Len(syncIDpart))
  IN  IF Len(tail) > HASH_LENGTH THEN "RangeError"
      ELSE head \o tsBE \o tail \o [i \in 1..(HASH_LENGTH - Len(tail)) |-> 0]

\* 20-byte hashes: first byte a, last byte b, the index in between
Hash(a, b) ==
  [i \in 1..HASH_LENGTH |-> IF i = 1 THEN a ELSE IF i = HASH_LENGTH THEN b ELSE i]

CodecTimestamps == {0, 9, 10, 255, 256, 999999999, 1000000000, 2147483647}

Messages ==
  [fid : {0, 258}, type : {0, 1, 2, 3}, timestamp : CodecTimestamps,
   hash : {Hash(0, 255), Hash(7, 0)}]

\* message.syncId() of one message, then of a second one
EncodeSyncId(m) ==
  /\ \/ last.op = "none"
     \/ last.op = "syncId" /\ last.other.op = "none"
  /\ last' = [op |-> "syncId", message |-> m, key |-> SyncId_syncId(m),
              res |-> "none", other |-> last]
  /\ UNCHANGED <<root, S, deleted, syncVars, rpcVars>>

\* SyncId.pkFromSyncId of the SyncId made last
PkFromSyncId ==
  /\ last.op = "syncId"
  /\ last' = [last EXCEPT !.op = "pkFromSyncId", !.res = pkFromSyncId(last.key)]
  /\ UNCHANGED <<root, S, deleted, syncVars, rpcVars>>

CodecNext ==
  \/ \E m \in Messages : EncodeSyncId(m)
  \/ PkFromSyncId

CodecSpec == Init /\ [][CodecNext]_vars

(***************************************************************************)
(* Server.subscribe: the listeners a Subscribe stream attaches to the      *)
(* store's event emitter, and their removal at the stream's 'close'.  A    *)
(* stream has one listener function per event, so that a listener of event *)
(* e is named by its stream.                                               *)
(***************************************************************************)
MaxEventTypes == 2

EventTypes ==
  {"EVENT_TYPE_NONE", "EVENT_TYPE_MERGE_MESSAGE", "EVENT_TYPE_PRUNE_MESSAGE",
   "EVENT_TYPE_REVOKE_MESSAGE", "EVENT_TYPE_MERGE_ID_REGISTRY_EVENT",
   "EVENT_TYPE_MERGE_NAME_REGISTRY_EVENT"}

\* request.eventTypes: a repeated field, any type any number of times
EventTypeLists == UNION {[1..n -> EventTypes] : n \in 0..MaxEventTypes}

\* What the streams ask for: any list on stream 1, everything or merged
\* messages on the others
Requests(s) ==
  IF s = 1 THEN EventTypeLists ELSE {<<>>, <<"EVENT_TYPE_MERGE_MESSAGE">>}

\* The event the branch of an event type listens to
eventOf(eventType) ==
  CASE eventType = "EVENT_TYPE_MERGE_MESSAGE" -> "mergeMessage"
    [] eventType = "EVENT_TYPE_PRUNE_MESSAGE" -> "pruneMessage"
    [] eventType = "EVENT_TYPE_REVOKE_MESSAGE" -> "revokeMessage"
    [] eventType = "EVENT_TYPE_MERGE_ID_REGISTRY_EVENT" -> "mergeIdRegistryEvent"
    [] eventType = "EVENT_TYPE_MERGE_NAME_REGISTRY_EVENT" -> "mergeNameRegistryEvent"

\* EventEmitter.on(event, listener): appended, whether or not it is there
on(ls, event, listener) == [ls EXCEPT ![event] = Append(@, listener)]

\* EventEmitter.off(event, listener): the instance of listener added last is
\* removed, if there is one
off(ls, event, listener) ==
  LET at == {i \in 1..Len(ls[event]) : ls[event][i] = listener} IN
  IF at = {} THEN ls
  ELSE LET i == CHOOSE j \in at : \A k \in at : k <= j
       IN  [ls EXCEPT ![event] = SubSeq(@, 1, i - 1) \o SubSeq(@, i + 1, Len(@))]

RECURSIVE attach(_, _, _)
\* for (const eventType of request.eventTypes): the branch of the type, none
\* for a type without a branch
attach(ls, s, eventTypes) ==
  IF eventTypes = <<>> THEN ls
  ELSE LET eventType == Head(eventTypes)
           ls1 == IF eventType = "EVENT_TYPE_NONE" THEN ls
                  ELSE on(ls, eventOf(eventType), s)
       IN  attach(ls1, s, Tail(eventTypes))

\* subscribe(stream): all five listeners without a filter, else those of the
\* filter; then the 'cancelled' and 'close' handlers and the ready metadata
Subscribe(s, eventTypes) ==
  /\ streams[s].state = "none"
  /\ listeners' = IF Len(eventTypes) = 0
                  THEN [e \in EventNames |-> Append(listeners[e], s)]
                  ELSE attach(listeners, s, eventTypes)
  /\ streams' = [streams EXCEPT ![s] = [state |-> "open", eventTypes |-> eventTypes,
                                        late |-> FALSE]]
  /\ UNCHANGED <<trieVars, syncVars>>

\* stream.on('cancelled'): stream.destroy(); its 'close' follows
Cancelled(s) ==
  /\ streams[s].state = "open"
  /\ streams' = [streams EXCEPT ![s].state = "destroyed"]
  /\ UNCHANGED <<trieVars, syncVars, listeners>>

\* stream.on('close'): one off() per event
Close(s) ==
  /\ streams[s].state \in {"open", "destroyed"}
  /\ listeners' = [e \in EventNames |-> off(listeners, e, s)[e]]
  /\ streams' = [streams EXCEPT ![s].state = "closed"]
  /\ UNCHANGED <<trieVars, syncVars>>

\* eventHandler.emit(event, ...): every listener of the event is called, in
\* the order of attachment, and writes a response to its stream
Emit(event) ==
  /\ last' = [op |-> "emit", key |-> event, res |-> listeners[event],
              pre |-> root, preS |-> S]
  /\ streams' = [s \in StreamIds |->
                   IF /\ \E i \in 1..Len(listeners[event]) : listeners[event][i] = s
                      /\ streams[s].state = "closed"
                   THEN [streams[s] EXCEPT !.late = TRUE]
                   ELSE streams[s]]
  /\ UNCHANGED <<root, S, deleted, syncVars, listeners>>

SubscribeNext ==
  \/ \E s \in StreamIds : \E eventTypes \in Requests(s) : Subscribe(s, eventTypes)
  \/ \E s \in StreamIds : Cancelled(s) \/ Close(s)
  \/ \E event \in EventNames : Emit(event)

SubscribeSpec == Init /\ [][SubscribeNext]_vars

(***************************************************************************)
(* The store events the SyncEngine listens to (its constructor).  The      *)
(* handlers are async functions without an await: each runs to its end, or *)
(* to its first throw, within the emit.  S follows the events as emitted.  *)
(***************************************************************************)
MaxDeleted == 1

\* The SyncIds of the messages the store emits events about
EventKeys == {syncId(20, 10, 1), syncId(20, 10, 2), syncId(2, 9, 1)}

\* deletedMessages of a mergeMessage event
DeletedLists == UNION {[1..n -> EventKeys] : n \in 0..MaxDeleted}

RECURSIVE removeMessages(_, _)
\* for (const deletedMessage of deletedMessages ?? []) removeMessage(...):
\* [n |-> the trie after, r |-> "ok" or "throw"]
removeMessages(t, ds) ==
  IF ds = <<>> THEN [n |-> t, r |-> "ok"]
  ELSE LET removed == {trieDelete(t, Head(ds))} IN
       CHOOSE out \in {IF d.r = "throw" THEN [n |-> d.n, r |-> "throw"]
                       ELSE removeMessages(d.n, Tail(ds)) : d \in removed} : TRUE

\* The mergeMessage handler: addMessage(message), then removeMessage of each
\* deleted message; a throw ends it (the promise of the handler rejects)
onMergeMessage(t, k, ds) ==
  LET added == {trieInsert(t, k)} IN
  CHOOSE out \in {IF ins.r = "throw" THEN [n |-> ins.n, r |-> "throw"]
                  ELSE removeMessages(ins.n, ds) : ins \in added} : TRUE

\* eventHandler.emit('mergeMessage', message, deletedMessages)
OnMergeMessage(k, ds) ==
  \E out \in {onMergeMessage(root, k, ds)} :
    /\ root' = out.n
    /\ S' = (S \cup {k}) \ {ds[i] : i \in 1..Len(ds)}
    /\ deleted' = (deleted \/ (ds # <<>> /\ out.r = "ok"))
    /\ last' = [op |-> "mergeMessage", key |-> k, deletedMessages |-> ds,
                res |-> out.r, pre |-> root, preS |-> S]
    /\ UNCHANGED <<syncVars, rpcVars>>

\* eventHandler.emit('pruneMessage' or 'revokeMessage', message)
OnRemoveMessage(event, k) ==
  \E out \in {removeMessages(root, <<k>>)} :
    /\ root' = out.n
    /\ S' = S \ {k}
    /\ deleted' = TRUE
    /\ last' = [op |-> event, key |-> k, deletedMessages |-> <<>>,
                res |-> out.r, pre |-> root, preS |-> S]
    /\ UNCHANGED <<syncVars, rpcVars>>

EventNext ==
  \/ \E k \in EventKeys : \E ds \in DeletedLists : OnMergeMessage(k, ds)
  \/ \E k \in EventKeys : OnRemoveMessage("pruneMessage", k)
  \/ \E k \in EventKeys : OnRemoveMessage("revokeMessage", k)

EventSpec == Init /\ [][EventNext]_vars

(***************************************************************************)
(* Two events handled in one order and in the other.                       *)
(***************************************************************************)
\* The events the engine emits for the SyncEngine's three listeners
Events ==
  [event : {"mergeMessage"}, key : EventKeys, deletedMessages : DeletedLists]
    \cup [event : {"pruneMessage", "revokeMessage"}, key : EventKeys,
          deletedMessages : {<<>>}]

\* The listener of the event run on trie t: [n |-> the trie after, r |-> ...]
handle(t, e) ==
  IF e.event = "mergeMessage" THEN onMergeMessage(t, e.key, e.deletedMessages)
  ELSE removeMessages(t, <<e.key>>)

RECURSIVE handleAll(_, _)
\* The listeners of the events es run one after the other on trie t: the trie
\* after. A listener that throws rejects its own promise and the next event
\* is handled all the same.
handleAll(t, es) ==
  IF es = <<>> THEN t
  ELSE CHOOSE after \in {handleAll(first.n, Tail(es)) :
                           first \in {handle(t, Head(es))}} : TRUE

\* What a hub has handled before: nothing, or the merge of one message
Befores ==
  {<<>>} \cup {<<[event |-> "mergeMessage", key |-> k, deletedMessages |-> <<>>]>> :
                 k \in EventKeys}

\* After the events before, e1 and e2 are emitted, in this order on one hub
\* and in the other order on another.
HandleInOrders(before, e1, e2) ==
  /\ last.op # "orders"
  /\ \E after \in {[order \in {<<e1, e2>>, <<e2, e1>>} |->
                     handleAll(root, before \o order)]} :
       last' = [op |-> "orders", key |-> e1.key, before |-> before,
                first |-> e1, second |-> e2,
                res |-> after[<<e1, e2>>], other |-> after[<<e2, e1>>],
                pre |-> root, preS |-> S]
  /\ UNCHANGED <<root, S, deleted, syncVars, rpcVars>>

OrderNext ==
  \E before \in Befores : \E e1, e2 \in Events : HandleInOrders(before, e1, e2)

OrderSpec == Init /\ [][OrderNext]_vars

(***************************************************************************)
(* getAllSyncIdsByPrefix asked of a hub between rounds.                    *)
(***************************************************************************)
\* engine.getAllSyncIdsByPrefix(prefix), as the RPC server calls it
GetAllSyncIdsByPrefix(prefix) ==
  /\ NoRound
  /\ last' = [op |-> "getAllSyncIdsByPrefix", key |-> prefix,
              res |-> getAllSyncIdsByPrefix(root, prefix), pre |-> root, preS |-> S]
  /\ UNCHANGED <<root, S, deleted, syncVars, rpcVars>>

IdsNext ==
  \/ \E k \in SyncKeys : AddMessage(k) \/ RemoveMessage(k)
  \/ \E prefix \in Prefixes : GetAllSyncIdsByPrefix(prefix)

IdsSpec == SyncInit /\ [][IdsNext]_vars

(***************************************************************************)
(* The snapshots two hubs take of their tries for one prefix.              *)
(***************************************************************************)
\* getSnapshot(prefix) on the root of the local trie and of the peer's
Snapshots(prefix) ==
  /\ last.op = "none"
  /\ last' = [op |-> "snapshots", key |-> prefix,
              res |-> getSnapshot(root, prefix, 0),
              peerRes |-> getSnapshot(peer, prefix, 0),
              pre |-> root, preS |-> S]
  /\ UNCHANGED <<root, S, deleted, syncVars, rpcVars>>

CertNext ==
  \/ \E k \in SyncKeys : AddMessage(k) \/ RemoveMessage(k) \/ PeerAddMessage(k)
  \/ \E prefix \in Prefixes : Snapshots(prefix)

CertSpec == SyncInit /\ [][CertNext]_vars

(***************************************************************************)
(* A round against a peer that answers getSyncMetadataByPrefix as it       *)
(* likes.                                                                  *)
(***************************************************************************)
\* The requests one round may send before the peer stops answering
MaxRequests == 4

\* A TrieNodeMetadataResponse not made from a trie: more messages than one
\* fetch takes, and one child that has the prefix asked for again (a first
\* digit when nothing was asked for, fromNodeMetadataResponse dropping
\* children without a prefix)
ForgedResponse(prefix) ==
  [prefix |-> prefix, numMessages |-> HASHES_PER_FETCH + 1, hash |-> <<"F">>,
   children |-> <<[prefix |-> IF prefix = <<>> THEN <<48>> ELSE prefix,
                   numMessages |-> HASHES_PER_FETCH + 1, hash |-> <<"F">>,
                   children |-> <<>>]>>]

\* The reply to getSyncMetadataByPrefix arrives, with a response of the
\* peer's making.
ForgedMetadataReply(c) ==
  /\ calls[c].pc = "meta"
  /\ Len(calls[c].reqs) < MaxRequests
  /\ LET cr  == calls[c]
         cr2 == fetchMissingHashesByNode(cr, root,
                  fromNodeMetadataResponse(ForgedResponse(cr.wait.prefix)),
                  cr.wait.our)
     IN  /\ calls' = [calls EXCEPT ![c] = cr2]
         /\ isSyncing' = finallyIsSyncing(cr2, isSyncing)
  /\ UNCHANGED <<trieVars, peer, mergeCall, rpcVars>>

\* The SyncIds of the rounds with forged replies: enough for the peer to have
\* a node above HASHES_PER_FETCH
ForgedKeys == { syncId(20, 9, 1), syncId(20, 10, 1), syncId(21, 9, 1) }

ForgedNext ==
  \/ \E k \in ForgedKeys : AddMessage(k) \/ PeerAddMessage(k)
  \/ \E c \in SyncCalls :
    \/ \E ft \in OverlapTimes, h \in PeerHashes : PerformSync(c, ft, h)
    \/ \E out \in Outcomes : MetadataReply(c, out)
    \/ ForgedMetadataReply(c)
    \/ \E out \in Outcomes : SyncIdsReply(c, out)
    \/ \E out \in Outcomes : MessagesReply(c, out)
    \/ \E out \in Outcomes : MergeMessage(c, out)

ForgedSpec == SyncInit /\ [][ForgedNext]_vars

(***************************************************************************)
(* Claims about the sync round and the divergence prefix.                  *)
(***************************************************************************)
StartsWith(id, prefix) == Len(prefix) <= Len(id) /\ SubSeq(id, 1, Len(prefix)) = prefix

Range(q) == {q[i] : i \in 1..Len(q)}

SymDiff(X, Y) == (X \ Y) \cup (Y \ X)

\* C5: when the excludedHashes are the peer's snapshot for the prefix of the
\* local default snapshot and no call failed, the SyncIds collected by the
\* walk include every SyncId the peer stores and the local trie did not.
C5_Completeness ==
  \A c \in SyncCalls :
    (calls[c].walked /\ calls[c].honest /\ ~calls[c].failed)
      => (Stored(peer) \ calls[c].local0) \subseteq Range(calls[c].missing)

\* A round that descended through the peer's children, found SyncIds the
\* local trie lacked next to others it had, and came back with no failure.
C5_Witness ==
  \E c \in SyncCalls :
    /\ calls[c].walked /\ calls[c].honest /\ ~calls[c].failed
    /\ calls[c].local0 # {}
    /\ Cardinality(Stored(peer) \ calls[c].local0) >= 2
    /\ Len(calls[c].reqs) >= 4

\* C6: every getSyncMetadataByPrefix and getAllSyncIdsByPrefix request of a
\* round carries a prefix that equals or extends the divergence prefix.
C6_RequestsBelowDivergence ==
  \A c \in SyncCalls : \A i \in 1..Len(calls[c].reqs) :
    calls[c].reqs[i].m \in {"getSyncMetadataByPrefix", "getAllSyncIdsByPrefix"}
      => StartsWith(calls[c].reqs[i].arg, calls[c].div)

FirstDiff(ours, theirs) ==
  LET n    == Min(Len(ours), Len(theirs))
      diff == {i \in 1..n : ours[i] # theirs[i]}
  IN  IF diff = {} THEN 0 ELSE CHOOSE i \in diff : \A j \in diff : i <= j

C9_IdenticalFetchesNothing ==
  \A c \in SyncCalls :
    calls[c].identical =>
      \A i \in 1..Len(calls[c].reqs) : calls[c].reqs[i].m # "getAllSyncIdsByPrefix"

Running(c) == calls[c].pc \notin {"idle", "done"}

\* C11: a performSync call begun while _isSyncing was true sends no request
\* and merges nothing, and at most one call is under way at any time.
C11_GuardedByIsSyncing ==
  /\ \A c \in DOMAIN calls :
       calls[c].overlapped => (calls[c].reqs = <<>> /\ calls[c].merged = <<>>)
  /\ Cardinality({c \in DOMAIN calls : Running(c)}) <= 1

\* C12: shouldSync(h) answers ok(false) while a round is under way, whatever
\* h; otherwise, the clock answering, ok(true) when h and the excludedHashes
\* of the local default snapshot are different lists and ok(false) when they
\* are the same list.
C12_ShouldSync ==
  last.op = "shouldSync" =>
    /\ last.syncing => last.res = [ok |-> TRUE, value |-> FALSE]
    /\ (~last.syncing /\ last.ft.ok) =>
         /\ last.res.ok
         /\ last.res.value = (snapshot(root, last.ft.value).excludedHashes /= last.h)

C12_Witness ==
  /\ last.op = "shouldSync" /\ ~last.syncing /\ last.ft.ok
  /\ last.res.value
  /\ Len(last.h) > Len(snapshot(root, last.ft.value).excludedHashes)
  /\ \A i \in 1..Len(snapshot(root, last.ft.value).excludedHashes) :
       snapshot(root, last.ft.value).excludedHashes[i] = last.h[i]

\* C13: adding or removing a message whose timestamp is at or after
\* snapshotTimestamp leaves the excludedHashes of the default snapshot as
\* they were, and with them the answer of shouldSync to any list of hashes.
C13_ThresholdFrame ==
  [][\A k \in OverlapKeys, ft \in {x \in FarcasterTimes : x.ok} :
       ( /\ AddMessage(k) \/ RemoveMessage(k)
         /\ timestampOf(k) >= snapshotTimestamp(ft.value) )
       => /\ snapshot(root', ft.value).excludedHashes
               = snapshot(root, ft.value).excludedHashes
          /\ \A h \in PeerHashes :
               shouldSync(root', FALSE, ft, h) = shouldSync(root, FALSE, ft, h)]_vars

\* C14: the prefix of the default snapshot is the first 9 characters of
\* snapshotTimestamp written in 10 decimal digits with leading zeros.
C14_DefaultPrefix ==
  (last.op = "shouldSync" /\ last.ft.ok) =>
    last.key = SubSeq(PadStart(DecDigits(snapshotTimestamp(last.ft.value)),
                               TIMESTAMP_LENGTH, 48), 1, TIMESTAMP_LENGTH - 1)

(***************************************************************************)
(* Claims about mergeMessages and the recovery of an unknown user.         *)
(***************************************************************************)
\* The calls made for the message with the given id, in the order made.
Block(id) == SelectSeq(mergeCall.trace, LAMBDA e : e.msg = id)

\* The place of a message in the sorted list, which is the place of its result.
Place(id) == CHOOSE j \in 1..Len(mergeCall.messages) : mergeCall.messages[j].id = id

Started == {mergeCall.trace[a].msg : a \in 1..Len(mergeCall.trace)}

Recorded(id) == Place(id) <= Len(mergeCall.mergeResults)

ResultOf(id) == mergeCall.mergeResults[Place(id)]

\* a validation failure that says 'invalid signer' or begins 'unknown fid'
UnknownFidOrInvalidSigner(result) ==
  /\ ~result.ok
  /\ result.errCode = "bad_request.validation_failure"
  /\ \/ result.message = <<"invalid", "signer">>
     \/ (Len(result.message) >= 2 /\ result.message[1] = "unknown"
                                  /\ result.message[2] = "fid")

HasFid(id) ==
  LET msg == mergeCall.messages[Place(id)] IN
  msg.data # <<>> /\ msg.data[1].fid # 0

\* C15: mergeMessages calls the store's mergeMessage for one message at a
\* time, the messages in non-decreasing timestamp order (no timestamp counts
\* as 0, equal timestamps in the order of the argument); no call is made
\* before the one before it returned, the calls for a message end before
\* the next message begins, and one result per message is returned.
C15_SequentialInOrder ==
  LET mc == mergeCall
      tr == mc.trace
      ts(id) == LET msg == mc.messages[Place(id)] IN
                IF msg.data = <<>> THEN 0 ELSE msg.data[1].timestamp
      before(x, y) == ts(x) < ts(y) \/ (ts(x) = ts(y) /\ x < y)
  IN  /\ \A a, b \in 1..Len(tr) :
           a < b => (tr[a].msg = tr[b].msg \/ before(tr[a].msg, tr[b].msg))
      /\ \A a \in 2..Len(tr) : tr[a - 1].out # "pending"
      /\ \A a \in 1..Len(tr) :
           (a = 1 \/ tr[a - 1].msg # tr[a].msg)
             => (tr[a].call = "mergeMessage" /\ tr[a].arg = tr[a].msg)
      /\ Len(mc.mergeResults) =
           Cardinality(Started) - (IF mc.pc \in {"idle", "done"} THEN 0 ELSE 1)
      /\ mc.pc = "done" =>
           /\ Len(mc.mergeResults) = Len(mc.messages)
           /\ Started = 1..Len(mc.messages)

C15_Witness ==
  /\ mergeCall.pc = "done"
  /\ Len(mergeCall.messages) = 2
  /\ mergeCall.messages[1].id = 2
  /\ \E a \in 1..Len(mergeCall.trace) :
       mergeCall.trace[a].call = "getIdRegistryEvent" /\ mergeCall.trace[a].msg = 2

RecoveryCalls ==
  << "mergeMessage", "getIdRegistryEvent", "mergeIdRegistryEvent",
     "getAllSignerMessagesByFid", "mergeMessages", "mergeMessage" >>

\* The calls of a recovery come in the order of RecoveryCalls, the two peer
\* calls carry the fid of the message, the message is retried if and only if
\* a signer message merged, never twice, and the result recorded is ok if
\* and only if the retry merged.
RecoveryInOrder(id) ==
  LET b == Block(id) IN
  /\ Len(b) <= Len(RecoveryCalls)
  /\ \A k \in 1..Len(b) : b[k].call = RecoveryCalls[k]
  /\ \A k \in {2, 4} : k <= Len(b) => b[k].arg = mergeCall.messages[Place(id)].data[1].fid
  /\ Len(b) = 6 => b[5].merged >= 1
  /\ (Len(b) = 5 /\ b[5].out # "pending") => b[5].merged = 0
  /\ Recorded(id) => (ResultOf(id).ok <=> (Len(b) = 6 /\ b[6].out = "ok"))

\* C16: when mergeMessage(m) fails with unknown fid or invalid signer the
\* engine asks the peer for the ID registry event of m.fid, merges it, asks
\* for the signer messages of m.fid, merges them, retries m once if and only
\* if a signer message merged, and records ok if and only if the retry merged.
C16_RecoverySequence ==
  \A id \in Started :
    LET b == Block(id) IN
    (b[1].out # "pending" /\ UnknownFidOrInvalidSigner(b[1].result)) =>
      /\ Len(b) >= 2
      /\ RecoveryInOrder(id)

\* C16 as amended: the same for a message that carries a fid; for a message
\* without one no peer call is made and bad_request.invalid_param is recorded.
C16_RecoverySequenceWithFid ==
  \A id \in Started :
    LET b == Block(id) IN
    (b[1].out # "pending" /\ UnknownFidOrInvalidSigner(b[1].result)) =>
      IF HasFid(id)
      THEN Len(b) >= 2 /\ RecoveryInOrder(id)
      ELSE /\ Len(b) = 1
           /\ Recorded(id)
           /\ ResultOf(id).errCode = "bad_request.invalid_param"

C16_Witness ==
  /\ mergeCall.pc = "done"
  /\ \E id \in Started :
       /\ Len(Block(id)) = 6
       /\ Block(id)[5].arg = 1 /\ Block(id)[5].merged = 1
       /\ ResultOf(id).ok
  /\ \E id \in Started :
       /\ Len(Block(id)) = 5
       /\ Block(id)[5].arg = 0

\* C17: recovery is invoked for a message if and only if its mergeMessage
\* failed with a validation failure saying 'invalid signer' or beginning
\* 'unknown fid'; after any other outcome no peer call is made for the
\* message and the result of mergeMessage is recorded as it came.
C17_RecoveryOnlyForUnknownUser ==
  \A id \in Started :
    LET b == Block(id) IN
    b[1].out # "pending" =>
      IF UnknownFidOrInvalidSigner(b[1].result)
      THEN \/ Len(b) >= 2 /\ b[2].call = "getIdRegistryEvent"
           \/ Recorded(id) /\ ResultOf(id).errCode = "bad_request.invalid_param"
      ELSE /\ Len(b) = 1
           /\ Recorded(id)
           /\ ResultOf(id) = b[1].result

C17_Witness ==
  /\ mergeCall.pc = "done"
  /\ \E id \in Started :
       /\ Block(id)[1].result.errCode = "bad_request.duplicate"
       /\ Block(id)[1].result.message = <<"invalid", "signer">>
       /\ ResultOf(id) = Block(id)[1].result
  /\ \E id \in Started :
       /\ Block(id)[1].result.message = <<"unknown", "fid", "7">>
       /\ Len(Block(id)) >= 2

FetchCalls == {"getIdRegistryEvent", "getAllSignerMessagesByFid"}

MergeCalls == {"mergeIdRegistryEvent", "mergeMessages"}

\* C18: in a recovery a failed fetch (of the ID registry event or of the
\* signer messages) gives unavailable.network_failure and a failed merge
\* (of the ID registry event, or of every signer message) gives
\* unavailable.storage_failure; no call follows the failure for that
\* message, the retry included.
C18_RecoveryFailures ==
  LET tr == mergeCall.trace IN
  \A a \in 1..Len(tr) :
    (tr[a].out = "err" /\ tr[a].call \in FetchCalls \cup MergeCalls) =>
      /\ a = Len(tr) \/ tr[a + 1].msg # tr[a].msg
      /\ Recorded(tr[a].msg)
      /\ ~ResultOf(tr[a].msg).ok
      /\ ResultOf(tr[a].msg).errCode =
           IF tr[a].call \in FetchCalls THEN "unavailable.network_failure"
           ELSE "unavailable.storage_failure"

C18_Witness ==
  /\ mergeCall.pc = "done"
  /\ \E a \in 1..Len(mergeCall.trace) :
       /\ mergeCall.trace[a].call = "mergeMessages"
       /\ mergeCall.trace[a].arg = 1 /\ mergeCall.trace[a].out = "err"
  /\ \E a \in 1..Len(mergeCall.trace) :
       /\ mergeCall.trace[a].call = "mergeIdRegistryEvent"
       /\ mergeCall.trace[a].out = "err"

\* C19: once a peer RPC of a round has failed, the round issues no further
\* peer RPC and merges no message.
C19_FailureAbandonsRound ==
  [][\A c \in DOMAIN calls :
       calls[c].rpcFailed =>
         /\ calls'[c].reqs = calls[c].reqs
         /\ calls'[c].merged = calls[c].merged]_vars

CutAtFirstMissing(t, prefix) ==
  LET miss == {n \in 1..(Len(prefix) - 1) : getNode(t, SubSeq(prefix, 1, n)) = Undefined}
  IN  IF miss = {} THEN prefix
      ELSE SubSeq(prefix, 1, CHOOSE n \in miss : \A m \in miss : n <= m)

\* C22: for a non-empty prefix getSnapshot returns the prefix whole if every
\* byte but the last has a matching child, else cut just after the first
\* byte without a matching child, with one excluded hash per byte of the
\* prefix returned.
C22_SnapshotPrefix ==
  (last.op = "getSnapshot" /\ last.key # <<>>) =>
    /\ last.res.prefix = CutAtFirstMissing(root, last.key)
    /\ Len(last.res.excludedHashes) = Len(last.res.prefix)

C22_Witness ==
  /\ last.op = "getSnapshot"
  /\ Len(last.key) = KeyLen
  /\ Len(last.res.prefix) = TIMESTAMP_LENGTH + 1
  /\ Cardinality(S) = 2
  /\ \E k \in S : StartsWith(k, SubSeq(last.key, 1, TIMESTAMP_LENGTH))

\* C23: the numMessages of getSnapshot is the number of stored SyncIds that
\* do not start with the prefix the snapshot returns.
C23_NumMessagesOutsidePrefix ==
  last.op = "getSnapshot" =>
    last.res.numMessages = Cardinality({k \in S : ~StartsWith(k, last.res.prefix)})

(***************************************************************************)
(* Claims about the SyncId codec.                                          *)
(***************************************************************************)
IsDigits(s) == \A i \in 1..Len(s) : s[i] \in 48..57

\* a < b in the byte-wise lexicographic order of Buffer.compare
BytesLess(a, b) ==
  LET n    == Min(Len(a), Len(b))
      diff == {i \in 1..n : a[i] # b[i]}
  IN  IF diff = {} THEN Len(a) < Len(b)
      ELSE LET i == CHOOSE j \in diff : \A k \in diff : j <= k
           IN  a[i] < b[i]

BigEndian(bs) == bs[1] * 16777216 + bs[2] * 65536 + bs[3] * 256 + bs[4]

\* id is the timestamp digits, the family prefix, the fid, the set postfix
\* and the hash of m, in this order and with nothing in between
Layout(id, m) ==
  /\ IsDigits(SubSeq(id, 1, 10))
  /\ ParseInt(SubSeq(id, 1, 10)) = m.timestamp
  /\ id[11] = UserPrefix
  /\ BigEndian(SubSeq(id, 12, 15)) = m.fid
  /\ id[16] = typeToSetPostfix(m.type)
  /\ SubSeq(id, 17, Len(id)) = m.hash

\* C24: for every message m with a u32 timestamp, pkFromSyncId(syncId(m)) is
\* the store's primary key of m: family prefix (1), fid (4), set postfix (1),
\* timestamp (4, big-endian), hash (20).
C24_RoundTrip ==
  last.op = "pkFromSyncId" =>
    /\ last.res = primaryKey(last.message)
    /\ Len(last.res) = 1 + 4 + 1 + 4 + 20
    /\ BigEndian(SubSeq(last.res, 7, 10)) = last.message.timestamp
    /\ SubSeq(last.res, 11, 30) = last.message.hash

C24_Witness ==
  /\ last.op = "pkFromSyncId"
  /\ last.message.timestamp = 2147483647
  /\ last.message.fid = 258
  /\ last.message.type = 3
  /\ last.res = primaryKey(last.message)
  /\ SubSeq(last.res, 7, 10) = <<127, 255, 255, 255>>

\* C25: the timestamp prefix of every SyncId is exactly 10 ASCII decimal
\* digits, and of two messages the one with the smaller timestamp has the
\* lexicographically smaller prefix, so that its SyncId sorts first whatever
\* the other fields are.
C25_TimestampOrder ==
  last.op = "syncId" =>
    /\ Len(timestampToPaddedTimestampPrefix(last.message.timestamp)) = 10
    /\ SubSeq(last.key, 1, 10) = timestampToPaddedTimestampPrefix(last.message.timestamp)
    /\ IsDigits(SubSeq(last.key, 1, 10))
    /\ (last.other.op = "syncId" /\ last.other.message.timestamp < last.message.timestamp) =>
         /\ BytesLess(SubSeq(last.other.key, 1, 10), SubSeq(last.key, 1, 10))
         /\ BytesLess(last.other.key, last.key)

C25_Witness ==
  /\ last.op = "syncId" /\ last.other.op = "syncId"
  /\ last.other.message.timestamp = 9 /\ last.message.timestamp = 10
  /\ last.other.message.fid > last.message.fid
  /\ BytesLess(last.other.key, last.key)

\* C26: syncId() yields exactly 40 bytes for every message: the 10 timestamp
\* digits, the 1-byte family prefix, the 4-byte big-endian fid, the 1-byte
\* set postfix and the 20-byte hash.
C26_FortyBytes ==
  last.op = "syncId" => (Len(last.key) = 40 /\ Layout(last.key, last.message))

\* C26 as amended: the five parts make exactly 36 bytes.
C26_ThirtySixBytes ==
  last.op = "syncId" => (Len(last.key) = 36 /\ Layout(last.key, last.message))

C26_Witness ==
  /\ last.op = "syncId"
  /\ last.message.timestamp = 1000000000
  /\ last.message.fid = 258
  /\ Len(last.key) = 10 + 1 + 4 + 1 + 20
  /\ Layout(last.key, last.message)

(***************************************************************************)
(* Claims about the Subscribe stream and the store events.                 *)
(***************************************************************************)
\* C27: once a Subscribe stream is closed (after a cancel or not), none of
\* its listeners is left on the store's event emitter, whatever list of
\* event types it asked for, and no event is written to it any more.
C27_ListenersRemoved ==
  \A s \in StreamIds :
    streams[s].state = "closed" =>
      /\ \A e \in EventNames : \A i \in 1..Len(listeners[e]) : listeners[e][i] # s
      /\ ~streams[s].late

\* C28: after any sequence of store events the trie holds exactly the
\* SyncIds left by applying the events one by one in the order of emission:
\* mergeMessage(m, deleted) adds m, then removes each deleted message;
\* pruneMessage(m) and revokeMessage(m) remove m.
C28_EventsInOrder ==
  /\ Stored(root) = S
  /\ items(root) = Cardinality(S)

(***************************************************************************)
(* Claims about the key length and the shape of the trie.                  *)
(***************************************************************************)
\* C29: with SyncIds that all have the full key length, no insert, delete
\* or exists call aborts with 'Key length exceeded', whatever distinct keys
\* the trie holds.
C29_NoKeyLengthExceeded ==
  (last.op \in {"insert", "delete", "exists"} /\ Len(last.key) = KeyLen) =>
    last.res \in {"true", "false"}

RECURSIVE Canonical(_, _)
\* The subtree of node, a node at the given depth, has the canonical shape
Canonical(node, depth) ==
  /\ depth < TIMESTAMP_LENGTH => node.key = NoKey
  /\ (depth >= TIMESTAMP_LENGTH /\ Cardinality(Stored(node)) = 1) =>
       (isLeaf(node) /\ Stored(node) = {node.key})
  /\ ~isLeaf(node) => node.key = NoKey
  /\ depth > 0 => node.items # 0
  /\ \A i \in 1..Len(node.children) : Canonical(node.children[i].n, depth + 1)

\* C30: after any sequence of inserts and deletes no node above depth 10
\* stores a key, every node at depth 10 or below whose subtree holds exactly
\* one SyncId is a childless leaf storing it, no node with children stores a
\* key, and only the root may have items = 0.
C30_CanonicalShape == Canonical(root, 0)

(***************************************************************************)
(* Claims about the cached items and hashes of the nodes.                  *)
(***************************************************************************)
RECURSIVE ItemsConsistent(_)
\* In the subtree of node every inner node counts the items of its
\* children and every leaf counts its key
ItemsConsistent(node) ==
  /\ IF isLeaf(node) THEN node.items = (IF node.key # NoKey THEN 1 ELSE 0)
     ELSE node.items = SumItems(node.children)
  /\ \A i \in 1..Len(node.children) : ItemsConsistent(node.children[i].n)

\* C31: in every reachable trie each inner node's items is the sum of its
\* children's items and each leaf's items is 1 with a key and 0 without, so
\* that the root's items is the number of stored SyncIds.
C31_ItemsConsistent ==
  /\ ItemsConsistent(root)
  /\ items(root) = Cardinality(Stored(root))

RECURSIVE HashesFresh(_)
\* In the subtree of node every cached hash is the digest of what the node
\* holds now
HashesFresh(node) ==
  /\ node.hash = IF isLeaf(node)
                 THEN (IF node.key # NoKey THEN HashOfKey(node.key) ELSE EMPTY_HASH)
                 ELSE HashOfHashes(ChildHashes(node))
  /\ \A i \in 1..Len(node.children) : HashesFresh(node.children[i].n)

\* C32: once an insert has succeeded on the trie (only then does it differ
\* from a new trie), after any further inserts and deletes every node's
\* cached hash is the digest recomputed from its contents: of the key for a
\* keyed leaf, EMPTY_HASH for a keyless leaf, of the children's hashes in
\* order for an inner node.
C32_HashesFresh == root # NewTrie => HashesFresh(root)

RECURSIVE ChildrenAscending(_)
\* In the subtree of node every children map iterates by ascending byte
ChildrenAscending(node) ==
  /\ \A i, j \in 1..Len(node.children) :
       i < j => node.children[i].c < node.children[j].c
  /\ \A i \in 1..Len(node.children) : ChildrenAscending(node.children[i].n)

\* C33: after any sequence of inserts and deletes the children map of every
\* node iterates in ascending numeric order of the bytes, whatever bytes the
\* keys are made of.
C33_ChildrenAscending == ChildrenAscending(root)

\* The bytes the keys are made of
KeyBytes == {k[i] : k \in Keys, i \in 1..KeyLen}

\* The paths of the nodes next to the path of key: a prefix of key followed
\* by another byte than the key's.  Every node off the path of key is one of
\* these or lies below one of these.
OffPaths(key) ==
  {SubSeq(key, 1, n) \o <<c>> :
     n \in 0..(Len(key) - 1), c \in KeyBytes} \ {SubSeq(key, 1, n) : n \in 1..Len(key)}

TheirNode(prefix) ==
  fromNodeMetadataResponse(toTrieNodeMetadataResponse(getTrieNodeMetadata(peer, prefix)))

RECURSIVE ExpectedRequests(_)
RECURSIVE ExpectedOfChildren(_, _)
\* The requests the walk from a prefix is to make: the metadata of the
\* prefix, then either the ids of the node, or the walks from the children
\* that differ, child by child
ExpectedRequests(prefix) ==
  LET theirNode == TheirNode(prefix)
      ourNode   == getTrieNodeMetadata(root, prefix)
  IN  <<Request("getSyncMetadataByPrefix", prefix)>> \o
      (IF theirNode.numMessages <= HASHES_PER_FETCH
       THEN <<Request("getAllSyncIdsByPrefix", theirNode.prefix)>>
       ELSE ExpectedOfChildren(theirNode.children, ourNode))

ExpectedOfChildren(children, ourNode) ==
  IF children = <<>> THEN <<>>
  ELSE LET ch == Head(children)
           differs == \/ ourNode = Undefined
                      \/ ~\E i \in 1..Len(ourNode.children) :
                            /\ ourNode.children[i].c = ch.c
                            /\ ourNode.children[i].hash = ch.hash
       IN  (IF differs THEN ExpectedRequests(ch.prefix) ELSE <<>>)
             \o ExpectedOfChildren(Tail(children), ourNode)

\* The requests of the walk of a round, without the fetch of the messages
WalkRequests(cr) == SelectSeq(cr.reqs, LAMBDA r : r.m # "getAllMessagesBySyncIds")

\* C35: for a peer node of at most HASHES_PER_FETCH messages the engine
\* sends one getAllSyncIdsByPrefix for the node and goes no deeper; for a
\* larger node it walks into exactly the peer's children whose hash differs
\* from the local child of the same byte (no local child counts as
\* differing) and sends nothing for the children with equal hashes.
C35_WalkRequests ==
  \A c \in DOMAIN calls :
    (calls[c].walked /\ ~calls[c].rpcFailed /\ calls[c].merged = <<>>) =>
      WalkRequests(calls[c]) = ExpectedRequests(calls[c].div)

\* A finished walk over a peer node above the threshold with a child that
\* was skipped for its equal hash and a child that was walked into
C35_Witness ==
  \E c \in DOMAIN calls :
    /\ calls[c].walked /\ ~calls[c].rpcFailed /\ calls[c].merged = <<>>
    /\ \E i \in 1..Len(calls[c].reqs) :
         LET r == calls[c].reqs[i] IN
         /\ r.m = "getSyncMetadataByPrefix"
         /\ TheirNode(r.arg).numMessages > HASHES_PER_FETCH
         /\ \E j, k \in 1..Len(TheirNode(r.arg).children) :
              LET same == TheirNode(r.arg).children[j]
                  diff == TheirNode(r.arg).children[k]
              IN  /\ ourChildHash(getTrieNodeMetadata(root, r.arg), same.c) = same.hash
                  /\ \A n \in 1..Len(calls[c].reqs) : calls[c].reqs[n].arg # same.prefix
                  /\ \E n \in 1..Len(calls[c].reqs) :
                       calls[c].reqs[n] = Request("getSyncMetadataByPrefix", diff.prefix)
    /\ \E i \in 1..Len(calls[c].reqs) : calls[c].reqs[i].m = "getAllSyncIdsByPrefix"

(***************************************************************************)
(* Claims about the snapshot as a certificate.                             *)
(***************************************************************************)
\* The stored SyncIds of trie t that do not start with prefix
Outside(t, prefix) == {k \in Stored(t) : ~StartsWith(k, prefix)}

\* C36: for a prefix p two tries return equal excludedHashes from
\* getSnapshot(p) if and only if they store the same SyncIds among those not
\* starting with p.
C36_SnapshotCertificate ==
  last.op = "snapshots" =>
    (last.res.excludedHashes = last.peerRes.excludedHashes
       <=> Outside(root, last.key) = Outside(peer, last.key))

(***************************************************************************)
(* Claims about isSyncing under overlapping rounds.                        *)
(***************************************************************************)
\* C37: isSyncing() is true whenever some performSync call has begun and not
\* yet returned, so getInfo's isSynced = !isSyncing() is never true during a
\* round.
C37_SyncingWhileRunning ==
  (\E c \in DOMAIN calls : Running(c)) => isSyncing

(***************************************************************************)
(* Claims about the depth of the walk.                                     *)
(***************************************************************************)
\* fetchMissingHashesByNode, handling the reply for one prefix, has called
\* fetchMissingHashesByPrefix for a child: one more loop is under way and a
\* metadata request is awaited again.
Recursed(c) ==
  /\ calls[c].pc = "meta"
  /\ calls'[c].pc = "meta"
  /\ Len(calls'[c].stack) = Len(calls[c].stack) + 1

\* The reply handled in this step is the one a hub's server makes from the
\* peer's trie.
ServerReply(c) ==
  /\ calls[c].pc = "meta"
  /\ calls'[c] = fetchMissingHashesByNode(calls[c], root,
                   TheirNode(calls[c].wait.prefix), calls[c].wait.our)

\* C38: whatever metadata the peer returns, each recursive call of
\* fetchMissingHashesByPrefix is made with a prefix strictly longer than its
\* caller's.
C38_LongerPrefix ==
  [][\A c \in DOMAIN calls :
       Recursed(c) =>
         Len(calls'[c].wait.prefix) > Len(calls[c].wait.prefix)]_vars

\* C38 (amended): when the peer's reply is the one a hub's server makes from
\* its trie, each recursive call of fetchMissingHashesByPrefix is made with
\* the caller's prefix and one more byte.
C38_LongerPrefixServerReply ==
  [][\A c \in DOMAIN calls :
       (Recursed(c) /\ ServerReply(c)) =>
         /\ Len(calls'[c].wait.prefix) = Len(calls[c].wait.prefix) + 1
         /\ StartsWith(calls'[c].wait.prefix, calls[c].wait.prefix)]_vars

C38_Witness ==
  \E c \in DOMAIN calls :
    /\ calls[c].pc = "meta"
    /\ Len(calls[c].stack) >= 2
    /\ Len(calls[c].reqs) = Len(calls[c].stack) + 1
    /\ \A i \in 1..Len(calls[c].reqs) :
         /\ calls[c].reqs[i].m = "getSyncMetadataByPrefix"
         /\ Len(calls[c].reqs[i].arg) = Len(calls[c].div) + i - 1

(***************************************************************************)
(* Claims about the order of events.                                       *)
(***************************************************************************)
\* C39: two events handled in one order or in the other leave the trie with
\* the same SyncIds and the same root hash.
C39_OrderDoesNotMatter ==
  last.op = "orders" =>
    /\ Stored(last.res) = Stored(last.other)
    /\ rootHash(last.res) = rootHash(last.other)

(***************************************************************************)
(* Claims about getAllSyncIdsByPrefix.                                     *)
(***************************************************************************)
\* C40: getAllSyncIdsByPrefix(p) returns the stored SyncIds that start with
\* p, all of them and no other, each once, for every prefix p.
C40_IdsByPrefix ==
  last.op = "getAllSyncIdsByPrefix" =>
    /\ Range(last.res) = {k \in S : StartsWith(k, last.key)}
    /\ Len(last.res) = Cardinality(Range(last.res))

====
